---- MODULE Spec2Model ----
(***************************************************************************)
(* Model of the canvas editing core of smartnote                           *)
(* (src/app/renderer/useEditorState.ts): scene, undo/redo history,         *)
(* pointer-driven interaction per tool, selection, erase.                  *)
(*                                                                         *)
(* Conventions                                                             *)
(*  - A nullable reference (drawing.current, selectionRect, ...) is a      *)
(*    sequence of length 0 (null) or 1 (the value).                        *)
(*  - Indices kept in selectedIdx / editingTextIdx are the source's        *)
(*    0-based array indices; item i of the source is items[i + 1] here.    *)
(*  - React state and the refs mirroring it (items / itemsRef) are one     *)
(*    variable: every handler runs after the re-render of the previous     *)
(*    event, so its closure sees the current state.                        *)
(*  - World coordinates are integers; distances are compared squared, as   *)
(*    exact rationals, so `dist <= 8` is decided without rounding.         *)
(*  - The viewport (offset, scale) is kept in exact rationals [num, den],  *)
(*    den > 0, in lowest terms; the source keeps IEEE doubles, so what     *)
(*    holds here holds in the source up to rounding.                       *)
(*  - The canvas' bounding rect is at the client origin (rect.left =       *)
(*    rect.top = 0), so css coordinates equal client coordinates.          *)
(***************************************************************************)
EXTENDS Integers, Sequences, FiniteSets, TLC

VARIABLES
  tool,               \* useState<Tool>
  items,              \* itemsRef.current / items
  undoStack,          \* undoStack.current
  redoStack,          \* redoStack.current
  drawing,            \* drawing.current (nullable)
  selectionRect,      \* selectionRect (nullable)
  selectionStart,     \* selectionStartRef.current (nullable)
  selectionDragging,  \* selectionDraggingRef.current
  pointerDown,        \* pointerDownRef.current
  offset,             \* offsetRef.current, x and y as fractions [num, den]
  scale,              \* scaleRef.current, as a fraction [num, den]
  panning,            \* panningRef.current
  panStart,           \* panStartRef.current (nullable)
  panOrigin,          \* panOriginRef.current (nullable)
  selectedIdx,        \* selectedIdx
  editingTextIdx,     \* editingTextIdx (nullable)
  capture,            \* the canvas holds the pointer capture
  noteId,             \* the noteId prop: App's currentNoteId (nullable)
  title,              \* title, a sequence of characters
  folderId,           \* folderId (nullable)
  db,                 \* the Notes table: noteId -> row (nullable)
  pending,            \* the renderer's requests awaiting their answer, oldest first
  nStrokes,           \* scenario counter: strokes committed by pointer-up
                      \* (SpecEdit: undoable edits made)
  nUndos,             \* scenario counter: calls of undo
  nViewSteps,         \* scenario counter: zoom steps and pan gestures begun
  nRaced              \* scenario counter: history pushes made while a request
                      \* was awaited (0 again when none is)

editorVars == <<tool, items, undoStack, redoStack, drawing, selectionRect,
                selectionStart, selectionDragging, pointerDown, offset, scale,
                panning, panStart, panOrigin, selectedIdx, editingTextIdx,
                capture>>
storeVars == <<noteId, title, folderId, db, pending>>
counters == <<nStrokes, nUndos, nViewSteps, nRaced>>
vars == <<editorVars, storeVars, counters>>

----------------------------------------------------------------------------
(* Bounds of the model *)

\* most points of one stroke
MaxPts == 2
\* most history pushes of one run of Spec
MaxEdits == 1
\* first strokes of a SpecUndoAll / SpecHist run that are drawn freely (the
\* later ones are single points at the origin)
FreeStrokes == 1
\* most items of an initial scene of SpecGeom
GeomItems == 2
\* most zoom steps and pan gestures of one run of SpecView
MaxViewSteps == 2
\* most rows of the Notes table
MaxNotes == 2
\* most items of an initial scene of SpecBounds
BoundsItems == 2
\* most requests awaiting their answer
MaxPending == 1
\* most items of a scene of SpecStore that a stroke is added to
StoreItems == 1
\* undoable edits made in an editing scenario
EditSteps == 2
\* calls of undo in an editing scenario
UndoSteps == 1

(* Program constants *)
HISTORY_LIMIT == 10
threshold == 8
clickThreshold == 8
dragThreshold == 4
TextW == 240
TextH == 80

NULL == <<>>
Some(v) == <<v>>
Val(o) == o[1]

Tools == {"pen", "select", "erase", "text"}

Pt(x, y) == [x |-> x, y |-> y]

Front(s) == SubSeq(s, 1, Len(s) - 1)
Last(s) == s[Len(s)]
EndsAt(pts, p) == pts # <<>> /\ Last(pts) = p

Min(a, b) == IF a <= b THEN a ELSE b
Max(a, b) == IF a >= b THEN a ELSE b
Abs(a) == IF a >= 0 THEN a ELSE -a

----------------------------------------------------------------------------
(* Exact rationals, standing for the source's numbers *)

RECURSIVE GCD(_, _)
GCD(a, b) == IF b = 0 THEN a ELSE GCD(b, a % b)

\* n / d in lowest terms, d # 0
Rat(n, d) ==
  LET g == GCD(Abs(n), Abs(d))
      sgn == IF d < 0 THEN -1 ELSE 1
  IN  [num |-> sgn * (n \div g), den |-> sgn * (d \div g)]

RInt(n) == [num |-> n, den |-> 1]

RAdd(a, b) == Rat(a.num * b.den + b.num * a.den, a.den * b.den)
RSub(a, b) == Rat(a.num * b.den - b.num * a.den, a.den * b.den)
\* the factors are reduced crosswise before they are multiplied
RMul(a, b) ==
  LET p == Rat(a.num, b.den)
      q == Rat(b.num, a.den)
  IN  Rat(p.num * q.num, p.den * q.den)
RDiv(a, b) == RMul(a, Rat(b.den, b.num))
RLe(a, b) == a.num * b.den <= b.num * a.den
RMin(a, b) == IF RLe(a, b) THEN a ELSE b
RMax(a, b) == IF RLe(a, b) THEN b ELSE a
\* Math.floor and Math.ceil
Floor(a) == a.num \div a.den
Ceil(a) == -((-a.num) \div a.den)

----------------------------------------------------------------------------
(* Geometry helpers *)

\* Squared distance from (px,py) to the segment (x1,y1)-(x2,y2) as a
\* fraction <<num, den>>, den > 0.  The source returns its square root.
pointNearSegment(px, py, x1, y1, x2, y2) ==
  LET A == px - x1
      B == py - y1
      C == x2 - x1
      D == y2 - y1
      dot == A * C + B * D
      len_sq == C * C + D * D
  IN  IF len_sq = 0 \/ dot < 0
        THEN <<A * A + B * B, 1>>                     \* param < 0: (xx,yy) = (x1,y1)
        ELSE IF dot > len_sq
          THEN <<(px - x2) * (px - x2) + (py - y2) * (py - y2), 1>>
          \* (xx,yy) is the foot of the perpendicular: dx*dx + dy*dy
          \*   = (A*A + B*B) - dot*dot / len_sq
          ELSE <<(A * A + B * B) * len_sq - dot * dot, len_sq>>

\* dist <= t for a squared distance d = <<num, den>>
DistLE(d, t) == d[1] <= t * t * d[2]

RECURSIVE SeqMin(_), SeqMax(_)
SeqMin(s) == IF Len(s) = 1 THEN s[1] ELSE Min(s[1], SeqMin(Tail(s)))
SeqMax(s) == IF Len(s) = 1 THEN s[1] ELSE Max(s[1], SeqMax(Tail(s)))

\* Defined for a stroke with at least one point (the source yields
\* infinite bounds for none).
strokeBounds(st) ==
  LET xs == [i \in 1..Len(st.points) |-> st.points[i].x]
      ys == [i \in 1..Len(st.points) |-> st.points[i].y]
  IN  [x |-> SeqMin(xs), y |-> SeqMin(ys),
       w |-> SeqMax(xs) - SeqMin(xs), h |-> SeqMax(ys) - SeqMin(ys)]

\* world = (css - offset) / scale, exactly
worldPointAt(c, off, sc) ==
  Pt(RDiv(RSub(RInt(c.x), off.x), sc), RDiv(RSub(RInt(c.y), off.y), sc))

worldPoint(c) == worldPointAt(c, offset, scale)

\* the world point under c has integer coordinates
Integral(c) == worldPoint(c).x.den = 1 /\ worldPoint(c).y.den = 1

\* The point the pointer handlers work with.  World coordinates are integers
\* here: the handlers that read the point are run where Integral(c) holds,
\* and there this is worldPoint(c).
toCanvasPoint(c) == Pt(Floor(worldPoint(c).x), Floor(worldPoint(c).y))

----------------------------------------------------------------------------
(* History *)

snapshotClone(snapshot) ==
  [i \in 1..Len(snapshot) |->
     IF snapshot[i].kind = "text"
       THEN snapshot[i]
       ELSE [kind |-> "stroke", color |-> snapshot[i].color,
             width |-> snapshot[i].width, points |-> snapshot[i].points]]

\* pushHistory evicting the newest entry instead of the oldest
pushHistoryEvictsNewest(u, snapshot) ==
  LET pushed == Append(u, snapshotClone(snapshot))
  IN  IF Len(pushed) > HISTORY_LIMIT THEN Front(pushed) ELSE pushed

\* pushHistory with no capacity check
pushHistoryUnbounded(u, snapshot) == Append(u, snapshotClone(snapshot))

\* The undo stack after pushHistory(snapshot); the redo stack becomes empty.
pushHistory(u, snapshot) ==
  LET pushed == Append(u, snapshotClone(snapshot))
  IN  IF Len(pushed) > HISTORY_LIMIT THEN Tail(pushed) ELSE pushed

\* The part of the state undo and redo work on.
Hist == [items |-> items, undoStack |-> undoStack, redoStack |-> redoStack,
         selectedIdx |-> selectedIdx]


\* undo pushing the restored snapshot, not the current scene, onto redo
undoPushesRestored(h) ==
  IF h.undoStack = <<>>
    THEN h
    ELSE [items |-> snapshotClone(Last(h.undoStack)),
          undoStack |-> Front(h.undoStack),
          redoStack |-> Append(h.redoStack, snapshotClone(Last(h.undoStack))),
          selectedIdx |-> <<>>]

undo(h) ==
  IF h.undoStack = <<>>
    THEN h
    ELSE [items |-> snapshotClone(Last(h.undoStack)),
          undoStack |-> Front(h.undoStack),
          redoStack |-> Append(h.redoStack, snapshotClone(h.items)),
          selectedIdx |-> <<>>]

redo(h) ==
  IF h.redoStack = <<>>
    THEN h
    ELSE [items |-> snapshotClone(Last(h.redoStack)),
          undoStack |-> Append(h.undoStack, snapshotClone(h.items)),
          redoStack |-> Front(h.redoStack),
          selectedIdx |-> <<>>]

----------------------------------------------------------------------------
(* Stroke finalize *)

\* finalizeStroke taking the history snapshot after appending the stroke
finalizeStrokePushAfter ==
  IF tool = "pen" /\ drawing # NULL
    THEN LET s == Val(drawing)
             saved == [kind |-> "stroke", color |-> s.color, width |-> s.width,
                       points |-> s.points]
         IN  [items |-> Append(items, saved),
              undoStack |-> pushHistory(undoStack, Append(items, saved)),
              redoStack |-> <<>>,
              drawing |-> NULL]
    ELSE [items |-> items, undoStack |-> undoStack, redoStack |-> redoStack,
          drawing |-> drawing]

\* finalizeStroke leaving the redo stack as it was
finalizeStrokeKeepsRedo ==
  IF tool = "pen" /\ drawing # NULL
    THEN LET s == Val(drawing)
             saved == [kind |-> "stroke", color |-> s.color, width |-> s.width,
                       points |-> s.points]
         IN  [items |-> Append(items, saved),
              undoStack |-> pushHistory(undoStack, items),
              redoStack |-> redoStack,
              drawing |-> NULL]
    ELSE [items |-> items, undoStack |-> undoStack, redoStack |-> redoStack,
          drawing |-> drawing]

\* What finalizeStroke() leaves in itemsRef, the two stacks and drawing.
finalizeStroke ==
  IF tool = "pen" /\ drawing # NULL
    THEN LET s == Val(drawing)
             saved == [kind |-> "stroke", color |-> s.color, width |-> s.width,
                       points |-> s.points]
         IN  [items |-> Append(items, saved),
              undoStack |-> pushHistory(undoStack, items),
              redoStack |-> <<>>,
              drawing |-> NULL]
    ELSE [items |-> items, undoStack |-> undoStack, redoStack |-> redoStack,
          drawing |-> drawing]

----------------------------------------------------------------------------
(* Hit tests *)

InBox(it, x, y) == x >= it.x /\ x <= it.x + it.w /\ y >= it.y /\ y <= it.y + it.h

\* some segment of the stroke lies within t of (x, y)
NearStroke(it, x, y, t) ==
  \E j \in 2..Len(it.points) :
    DistLE(pointNearSegment(x, y, it.points[j - 1].x, it.points[j - 1].y,
                            it.points[j].x, it.points[j].y), t)

\* the filter predicate of eraseAtPoint: TRUE when the item is kept
eraseKeeps(it, x, y) ==
  IF it.kind = "text" THEN ~InBox(it, x, y) ELSE ~NearStroke(it, x, y, threshold)

RECURSIVE FilterSeq(_, _, _)
FilterSeq(s, x, y) ==
  IF s = <<>> THEN <<>>
  ELSE IF eraseKeeps(s[1], x, y) THEN <<s[1]>> \o FilterSeq(Tail(s), x, y)
       ELSE FilterSeq(Tail(s), x, y)

\* eraseAtPoint pushing history whether or not an item was removed
eraseAtPointAlwaysPushes(x, y) ==
  [items |-> FilterSeq(items, x, y), undoStack |-> pushHistory(undoStack, items),
   redoStack |-> <<>>]

\* eraseAtPoint removing only the topmost item it hits
eraseAtPointTopmost(x, y) ==
  LET hit == {i \in 1..Len(items) : ~eraseKeeps(items[i], x, y)}
      top == CHOOSE i \in hit : \A j \in hit : j <= i
  IN  IF hit # {}
        THEN [items |-> SubSeq(items, 1, top - 1) \o SubSeq(items, top + 1, Len(items)),
              undoStack |-> pushHistory(undoStack, items),
              redoStack |-> <<>>]
        ELSE [items |-> items, undoStack |-> undoStack, redoStack |-> redoStack]

\* What eraseAtPoint(x, y) leaves in itemsRef and the two stacks.
eraseAtPoint(x, y) ==
  LET before == items
      next == FilterSeq(before, x, y)
  IN  IF Len(next) # Len(before)
        THEN [items |-> next, undoStack |-> pushHistory(undoStack, before),
              redoStack |-> <<>>]
        ELSE [items |-> items, undoStack |-> undoStack, redoStack |-> redoStack]

\* the marquee test taking a text box by overlap, like a stroke
marqueeSelectsByOverlap(it, r) ==
  IF it.kind = "text"
    THEN it.x + it.w >= r.x /\ it.x <= r.x + r.w /\ it.y + it.h >= r.y
         /\ it.y <= r.y + r.h
    ELSE IF it.points = <<>>
      THEN FALSE
      ELSE LET b == strokeBounds(it)
           IN  b.x + b.w >= r.x /\ b.x <= r.x + r.w /\ b.y + b.h >= r.y
               /\ b.y <= r.y + r.h

\* the selection test of the marquee: text boxes by containment, strokes by
\* intersection of their bounding box; r = [x, y, w, h]
marqueeSelects(it, r) ==
  IF it.kind = "text"
    THEN it.x >= r.x /\ it.y >= r.y /\ it.x + it.w <= r.x + r.w
         /\ it.y + it.h <= r.y + r.h
    ELSE IF it.points = <<>>
      THEN FALSE        \* infinite bounds: b.x + b.w is NaN, no comparison holds
      ELSE LET b == strokeBounds(it)
           IN  b.x + b.w >= r.x /\ b.x <= r.x + r.w /\ b.y + b.h >= r.y
               /\ b.y <= r.y + r.h

RECURSIVE IdxFrom(_, _, _)
\* the 0-based indices i >= k - 1 of its selected by r, ascending
IdxFrom(its, r, k) ==
  IF k > Len(its) THEN <<>>
  ELSE IF marqueeSelects(its[k], r) THEN <<k - 1>> \o IdxFrom(its, r, k + 1)
       ELSE IdxFrom(its, r, k + 1)

marqueeSelection(its, r) == IdxFrom(its, r, 1)

clickHits(it, p) ==
  IF it.kind = "text" THEN InBox(it, p.x, p.y)
  ELSE NearStroke(it, p.x, p.y, clickThreshold)

RECURSIVE TopHit(_, _, _)
\* scan from index i (1-based) down to 1; the first item hit, as [i - 1]
TopHit(its, p, i) ==
  IF i < 1 THEN <<>>
  ELSE IF clickHits(its[i], p) THEN <<i - 1>>
       ELSE TopHit(its, p, i - 1)

RECURSIVE BottomHit(_, _, _)
BottomHit(its, p, i) ==
  IF i > Len(its) THEN <<>>
  ELSE IF clickHits(its[i], p) THEN <<i - 1>>
       ELSE BottomHit(its, p, i + 1)

\* the click hit test scanning from the bottom item up
clickSelectionBottomFirst(its, p) == BottomHit(its, p, 1)

clickSelection(its, p) == TopHit(its, p, Len(its))

----------------------------------------------------------------------------
(* Storage *)

RECURSIVE TrimStart(_)
TrimStart(t) == IF t # <<>> /\ t[1] = " " THEN TrimStart(Tail(t)) ELSE t
RECURSIVE TrimEnd(_)
TrimEnd(t) == IF t # <<>> /\ Last(t) = " " THEN TrimEnd(Front(t)) ELSE t
\* String.prototype.trim
Trim(t) == TrimEnd(TrimStart(t))

\* the title the load effect gives a new note
Untitled == <<"Untitled">>

NoteIds == 1..MaxNotes

\* the Notes table with no row
EmptyDb == [i \in NoteIds |-> NULL]

(* The text of the strokes column is one of                                 *)
(*   [json |-> "array", elems |-> its]  a JSON array of item objects        *)
(*   [json |-> "numbers"]               a JSON array of non-objects: [1]    *)
(*   [json |-> "object"]                a JSON value that is no array: {}   *)
(*   [json |-> "null"]                  the JSON text null                  *)
(*   [json |-> "garbage"]               text that is not JSON               *)
(*   [json |-> "empty"]                 SQL NULL or the empty string        *)
(* and a parsed value is [type |-> "array", elems |-> its], or              *)
(* [type |-> t] for t one of "numbers", "object", "null".                   *)

\* JSON.stringify of a list of items (finite numbers and strings only)
stringify(its) == [json |-> "array", elems |-> its]

\* JSON.parse: [threw |-> TRUE] for text that is not JSON
parse(text) ==
  CASE text.json = "array" ->
         [threw |-> FALSE, value |-> [type |-> "array", elems |-> text.elems]]
    [] text.json \in {"numbers", "object", "null"} ->
         [threw |-> FALSE, value |-> [type |-> text.json]]
    [] OTHER -> [threw |-> TRUE]

EmptyList == [type |-> "array", elems |-> <<>>]

\* the id INSERT gives a new row: one more than the largest in the table
lastInsertRowid(d) ==
  IF \A i \in NoteIds : d[i] = NULL THEN 1
  ELSE 1 + CHOOSE i \in NoteIds : d[i] # NULL /\ \A j \in NoteIds : d[j] # NULL => j <= i

\* NoteRepository.upsertNote: the table afterwards and the id returned.
\* An UPDATE of a noteId that has no row changes nothing.  The tags field
\* of a row stands for the rows of NoteTags with its noteId (a tag is named
\* by its name); upsertNote does not write NoteTags.
upsertNote(d, input) ==
  IF input.noteId # NULL
    THEN [db |-> IF d[Val(input.noteId)] # NULL
                   THEN [d EXCEPT ![Val(input.noteId)] =
                           Some([title |-> input.title,
                                 strokes |-> input.strokesJSON,
                                 folderId |-> input.folderId,
                                 tags |-> Val(d[Val(input.noteId)]).tags])]
                   ELSE d,
          noteId |-> Val(input.noteId)]
    ELSE [db |-> [d EXCEPT ![lastInsertRowid(d)] =
                    Some([title |-> input.title, strokes |-> input.strokesJSON,
                          folderId |-> input.folderId, tags |-> {}])],
          noteId |-> lastInsertRowid(d)]

\* NoteRepository.setNoteTags: the links of the note are deleted and the
\* given ones inserted (for a note with no row, and no tag given, nothing)
setNoteTags(d, id, tagIds) ==
  IF id \in DOMAIN d /\ d[id] # NULL
    THEN [d EXCEPT ![id] = Some([title |-> Val(d[id]).title,
                                 strokes |-> Val(d[id]).strokes,
                                 folderId |-> Val(d[id]).folderId,
                                 tags |-> tagIds])]
    ELSE d

\* ipc tags:assign (INSERT OR IGNORE INTO NoteTags) for a note that has a row
assignTag(d, id, t) ==
  [d EXCEPT ![id] = Some([title |-> Val(d[id]).title,
                          strokes |-> Val(d[id]).strokes,
                          folderId |-> Val(d[id]).folderId,
                          tags |-> Val(d[id]).tags \cup {t}])]

\* ipc tags:remove (DELETE FROM NoteTags WHERE noteId = ? AND tagId = ?)
removeTag(d, id, t) ==
  IF d[id] = NULL THEN d
  ELSE [d EXCEPT ![id] = Some([title |-> Val(d[id]).title,
                               strokes |-> Val(d[id]).strokes,
                               folderId |-> Val(d[id]).folderId,
                               tags |-> Val(d[id]).tags \ {t}])]

\* NoteService.save: [threw |-> TRUE] for a blank title
NoteServiceSave(d, input) ==
  IF input.title = <<>> \/ Trim(input.title) = <<>>
    THEN [threw |-> TRUE]
    ELSE LET r == upsertNote(d, [noteId |-> input.noteId,
                                 title |-> Trim(input.title),
                                 strokesJSON |-> stringify(input.strokes),
                                 folderId |-> input.folderId])
             tagIds == {input.tagNames[k] : k \in 1..Len(input.tagNames)}
         IN  [threw |-> FALSE, db |-> setNoteTags(r.db, r.noteId, tagIds),
              noteId |-> r.noteId]

\* NoteService.get: NULL (undefined) when the row is missing
NoteServiceGet(d, id) ==
  IF d[id] = NULL THEN NULL
  ELSE LET row == Val(d[id])
           p == parse(row.strokes)
       IN  Some([noteId |-> id, title |-> row.title,
                 strokes |-> IF row.strokes.json = "empty" \/ p.threw
                               THEN EmptyList ELSE p.value,
                 folderId |-> row.folderId])

----------------------------------------------------------------------------
(* Initial state: the hook's useState / useRef initial values, after the    *)
(* load effect of noteId = null has run (empty scene, empty stacks).        *)

Init ==
  /\ tool = "pen"
  /\ items = <<>>
  /\ undoStack = <<>>
  /\ redoStack = <<>>
  /\ drawing = NULL
  /\ selectionRect = NULL
  /\ selectionStart = NULL
  /\ selectionDragging = FALSE
  /\ pointerDown = FALSE
  /\ offset = Pt(RInt(0), RInt(0))
  /\ scale = RInt(1)
  /\ panning = FALSE
  /\ panStart = NULL
  /\ panOrigin = NULL
  /\ selectedIdx = <<>>
  /\ editingTextIdx = NULL
  /\ capture = FALSE
  /\ noteId = NULL
  /\ title = Untitled
  /\ folderId = NULL
  /\ db = EmptyDb
  /\ pending = <<>>
  /\ nStrokes = 0
  /\ nUndos = 0
  /\ nViewSteps = 0
  /\ nRaced = 0

panVars == <<panning, panStart, panOrigin>>
viewVars == <<offset, scale>>
histVars == <<items, undoStack, redoStack>>
marqueeVars == <<selectionRect, selectionStart, selectionDragging>>

----------------------------------------------------------------------------
(* Pointer handlers.  button: 0 primary, 1 middle, 2 right; c: the event's  *)
(* client position.                                                         *)

\* a stroke started with no point
NewStrokeNoPoint(p) == [kind |-> "stroke", points |-> <<>>, color |-> "#222", width |-> 2]

\* penColor / penWidth keep their initial values '#222' and 2.
NewStroke(p) == [kind |-> "stroke", points |-> <<p>>, color |-> "#222", width |-> 2]

\* The text box created by the text tool (id, font, color and align are
\* constants of the source and left out).
NewTextBox(p) == [kind |-> "text", x |-> p.x, y |-> p.y, w |-> TextW, h |-> TextH,
                  text |-> ""]

PointerDownPan(c) ==
  /\ panning' = TRUE
  /\ panStart' = Some(c)
  /\ panOrigin' = Some(offset)
  /\ capture' = TRUE
  /\ UNCHANGED <<tool, histVars, drawing, marqueeVars, pointerDown, viewVars,
                 selectedIdx, editingTextIdx>>

PointerDownOther ==
  /\ selectionStart' = NULL
  /\ selectionDragging' = FALSE
  /\ selectionRect' = NULL
  /\ capture' = FALSE
  /\ UNCHANGED <<tool, histVars, drawing, pointerDown, viewVars, panVars,
                 selectedIdx, editingTextIdx>>

\* the pen branch of pointer-down replacing a stale stroke without
\* finalizing it
PointerDownPenDropsStale(p) ==
  /\ drawing' = Some(NewStroke(p))
  /\ pointerDown' = TRUE
  /\ capture' = TRUE
  /\ UNCHANGED <<tool, histVars, marqueeVars, viewVars, panVars, selectedIdx,
                 editingTextIdx>>

PointerDownPen(p) ==
  LET f == finalizeStroke      \* only called when drawing.current is set
  IN  /\ items' = f.items
      /\ undoStack' = f.undoStack
      /\ redoStack' = f.redoStack
      /\ drawing' = Some(NewStroke(p))
      /\ pointerDown' = TRUE
      /\ capture' = TRUE
      /\ UNCHANGED <<tool, marqueeVars, viewVars, panVars, selectedIdx,
                     editingTextIdx>>

PointerDownSelect(p) ==
  /\ pointerDown' = TRUE
  /\ selectionStart' = Some(Pt(p.x, p.y))
  /\ selectionDragging' = FALSE
  /\ selectionRect' = NULL
  /\ capture' = TRUE
  /\ UNCHANGED <<tool, histVars, drawing, viewVars, panVars, selectedIdx,
                 editingTextIdx>>

PointerDownErase(p) ==
  LET e == eraseAtPoint(p.x, p.y)
  IN  /\ pointerDown' = TRUE
      /\ items' = e.items
      /\ undoStack' = e.undoStack
      /\ redoStack' = e.redoStack
      /\ capture' = TRUE
      /\ UNCHANGED <<tool, drawing, marqueeVars, viewVars, panVars, selectedIdx,
                     editingTextIdx>>

\* the text branch of pointer-down not entering edit mode
PointerDownTextNoEdit(p) ==
  LET next == Append(items, NewTextBox(p))
  IN  /\ pointerDown' = TRUE
      /\ undoStack' = pushHistory(undoStack, items)
      /\ redoStack' = <<>>
      /\ items' = next
      /\ selectionStart' = NULL
      /\ selectionRect' = NULL
      /\ selectionDragging' = FALSE
      /\ capture' = TRUE
      /\ UNCHANGED <<tool, drawing, viewVars, panVars, selectedIdx, editingTextIdx>>

PointerDownText(p) ==
  LET next == Append(items, NewTextBox(p))
  IN  /\ pointerDown' = TRUE
      /\ undoStack' = pushHistory(undoStack, items)
      /\ redoStack' = <<>>
      /\ items' = next
      /\ selectionStart' = NULL
      /\ selectionRect' = NULL
      /\ selectionDragging' = FALSE
      /\ editingTextIdx' = Some(Len(next) - 1)
      /\ capture' = TRUE
      /\ UNCHANGED <<tool, drawing, viewVars, panVars, selectedIdx>>

onCanvasPointerDown(button, c) ==
  /\ editingTextIdx = NULL
  /\ IF button = 2 THEN PointerDownPan(c)
     ELSE IF button # 0 THEN PointerDownOther
     ELSE LET p == toCanvasPoint(c)
          IN  CASE tool = "pen" -> PointerDownPen(p)
                [] tool = "select" -> PointerDownSelect(p)
                [] tool = "erase" -> PointerDownErase(p)
                [] tool = "text" -> PointerDownText(p)

\* the pan branch of pointer-move dividing the screen delta by the scale
PointerMovePanScaled(c) ==
  /\ offset' = Pt(RAdd(Val(panOrigin).x, RDiv(RInt(c.x - Val(panStart).x), scale)),
                  RAdd(Val(panOrigin).y, RDiv(RInt(c.y - Val(panStart).y), scale)))
  /\ UNCHANGED <<tool, capture, histVars, drawing, marqueeVars, pointerDown, scale,
                 panVars, selectedIdx, editingTextIdx>>

\* pointer-move while panning: the offset follows the raw screen delta and
\* the handler returns
PointerMovePan(c) ==
  /\ offset' = Pt(RAdd(Val(panOrigin).x, RInt(c.x - Val(panStart).x)),
                  RAdd(Val(panOrigin).y, RInt(c.y - Val(panStart).y)))
  /\ UNCHANGED <<tool, capture, histVars, drawing, marqueeVars, pointerDown, scale,
                 panVars, selectedIdx, editingTextIdx>>

onCanvasPointerMove(c) ==
  /\ IF panning /\ panStart # NULL /\ panOrigin # NULL
       THEN PointerMovePan(c)
       ELSE /\ pointerDown
            /\ LET p == toCanvasPoint(c)
               IN  IF tool = "pen" /\ drawing # NULL
                     THEN /\ drawing' = Some([Val(drawing) EXCEPT
                                                !.points = Append(@, p)])
                          /\ UNCHANGED <<tool, capture, histVars, marqueeVars, pointerDown,
                                         viewVars, panVars, selectedIdx,
                                         editingTextIdx>>
                     ELSE /\ tool = "select" /\ selectionStart # NULL
                          /\ LET s == Val(selectionStart)
                                 r == [x |-> Min(s.x, p.x), y |-> Min(s.y, p.y),
                                       w |-> Abs(p.x - s.x), h |-> Abs(p.y - s.y)]
                                 moved == (p.x - s.x) * (p.x - s.x)
                                            + (p.y - s.y) * (p.y - s.y)
                                          > dragThreshold * dragThreshold
                             IN  /\ selectionDragging' =
                                      IF moved THEN TRUE ELSE selectionDragging
                                 /\ selectionRect' =
                                      IF moved THEN Some(r) ELSE selectionRect
                                 /\ selectedIdx' = marqueeSelection(items, r)
                          /\ UNCHANGED <<tool, capture, histVars, drawing, selectionStart,
                                         pointerDown, viewVars, panVars,
                                         editingTextIdx>>

\* the pan branch of pointer-up running on into finalizeStroke
PointerUpPanFinalizes ==
  LET f == finalizeStroke
  IN  /\ panning' = FALSE
      /\ panStart' = NULL
      /\ panOrigin' = NULL
      /\ items' = f.items
      /\ undoStack' = f.undoStack
      /\ redoStack' = f.redoStack
      /\ drawing' = f.drawing
      /\ capture' = FALSE
      /\ UNCHANGED <<tool, marqueeVars, pointerDown, viewVars, selectedIdx,
                     editingTextIdx>>

\* the pan branch of pointer-up leaving the capture held
PointerUpPanKeepsCapture ==
  /\ panning' = FALSE
  /\ panStart' = NULL
  /\ panOrigin' = NULL
  /\ UNCHANGED <<tool, capture, histVars, drawing, marqueeVars, pointerDown,
                 viewVars, selectedIdx, editingTextIdx>>

\* pointer-up while panning: the pan ends and the handler returns
PointerUpPan ==
  /\ panning' = FALSE
  /\ panStart' = NULL
  /\ panOrigin' = NULL
  /\ capture' = FALSE
  /\ UNCHANGED <<tool, histVars, drawing, marqueeVars, pointerDown, viewVars,
                 selectedIdx, editingTextIdx>>

onCanvasPointerUp(c) ==
  /\ IF panning
       THEN PointerUpPan
       ELSE LET f == finalizeStroke
            IN  /\ pointerDown' = FALSE
                /\ items' = f.items
                /\ undoStack' = f.undoStack
                /\ redoStack' = f.redoStack
                /\ drawing' = f.drawing
                /\ IF tool = "select"
                     THEN IF selectionDragging /\ selectionRect # NULL
                            THEN /\ selectedIdx' =
                                      marqueeSelection(f.items, Val(selectionRect))
                                 /\ selectionRect' = NULL
                                 /\ selectionStart' = NULL
                                 /\ UNCHANGED selectionDragging
                            ELSE /\ selectedIdx' =
                                      clickSelection(f.items, toCanvasPoint(c))
                                 /\ selectionDragging' = FALSE
                                 /\ UNCHANGED <<selectionRect, selectionStart>>
                     ELSE /\ selectionRect' = NULL
                          /\ selectionStart' = NULL
                          /\ UNCHANGED <<selectionDragging, selectedIdx>>
                /\ capture' = FALSE
                /\ UNCHANGED <<tool, viewVars, panVars, editingTextIdx>>

onCanvasPointerCancel ==
  LET f == finalizeStroke
  IN  /\ pointerDown' = FALSE
      /\ items' = f.items
      /\ undoStack' = f.undoStack
      /\ redoStack' = f.redoStack
      /\ drawing' = f.drawing
      /\ capture' = FALSE
      /\ UNCHANGED <<tool, marqueeVars, viewVars, panVars, selectedIdx,
                     editingTextIdx>>

\* the window 'mouseup' listener
windowMouseUp ==
  LET f == finalizeStroke
  IN  /\ items' = f.items
      /\ undoStack' = f.undoStack
      /\ redoStack' = f.redoStack
      /\ drawing' = f.drawing
      /\ UNCHANGED <<tool, capture, marqueeVars, pointerDown, viewVars, panVars,
                     selectedIdx, editingTextIdx>>

----------------------------------------------------------------------------
(* Zoom: the canvas' wheel listener, for an event with ctrl or meta held    *)
(* (without them the listener returns at once).  deltaY is the event's      *)
(* deltaY; c its client position.                                           *)

MinScale == Rat(1, 10)
MaxScale == RInt(4)
ZoomIn == Rat(11, 10)
ZoomOut == Rat(9, 10)

\* delta > 0 ? 1.1 : 0.9, with delta = -deltaY
zoomFactor(deltaY) == IF -deltaY > 0 THEN ZoomIn ELSE ZoomOut

\* the next scale left unclamped
nextScaleUnclamped(s, deltaY) == RMul(s, zoomFactor(deltaY))

nextScale(s, deltaY) == RMax(MinScale, RMin(MaxScale, RMul(s, zoomFactor(deltaY))))

\* the next offset computed with the scale before the step
nextOffsetOldScale(c, ns) ==
  Pt(RSub(RInt(c.x), RMul(worldPoint(c).x, scale)),
     RSub(RInt(c.y), RMul(worldPoint(c).y, scale)))

\* cx - worldX * nextScale, cy - worldY * nextScale
nextOffset(c, ns) ==
  Pt(RSub(RInt(c.x), RMul(worldPoint(c).x, ns)),
     RSub(RInt(c.y), RMul(worldPoint(c).y, ns)))

onWheel(c, deltaY) ==
  LET ns == nextScale(scale, deltaY)
  IN  /\ scale' = ns
      /\ offset' = nextOffset(c, ns)
      /\ UNCHANGED <<tool, capture, histVars, drawing, marqueeVars, pointerDown, panVars,
                     selectedIdx, editingTextIdx>>

----------------------------------------------------------------------------
(* Export.  In computeContentBounds the coordinates of the items are        *)
(* fractions [num, den].                                                    *)

margin == 24

\* the values an item is compared with minX (minY) and with maxX (maxY);
\* a stroke without points is skipped
minCandidates(it, axis) ==
  IF it.kind = "stroke"
    THEN [i \in 1..Len(it.points) |-> IF axis = "x" THEN it.points[i].x
                                                    ELSE it.points[i].y]
    ELSE IF axis = "x" THEN <<it.x>> ELSE <<it.y>>

maxCandidates(it, axis) ==
  IF it.kind = "stroke"
    THEN [i \in 1..Len(it.points) |-> IF axis = "x" THEN it.points[i].x
                                                    ELSE it.points[i].y]
    ELSE IF axis = "x" THEN <<RAdd(it.x, it.w)>> ELSE <<RAdd(it.y, it.h)>>

RECURSIVE RSeqMin(_), RSeqMax(_)
RSeqMin(q) == IF Len(q) = 1 THEN q[1] ELSE RMin(q[1], RSeqMin(Tail(q)))
RSeqMax(q) == IF Len(q) = 1 THEN q[1] ELSE RMax(q[1], RSeqMax(Tail(q)))

RECURSIVE allMin(_, _), allMax(_, _)
allMin(its, axis) ==
  IF its = <<>> THEN <<>> ELSE minCandidates(its[1], axis) \o allMin(Tail(its), axis)
allMax(its, axis) ==
  IF its = <<>> THEN <<>> ELSE maxCandidates(its[1], axis) \o allMax(Tail(its), axis)

computeContentBounds(its) ==
  IF allMin(its, "x") = <<>>      \* minX ... maxY are still infinite
    THEN [x |-> 0, y |-> 0, w |-> 600, h |-> 400]
    ELSE LET minX == RSeqMin(allMin(its, "x"))
             minY == RSeqMin(allMin(its, "y"))
             maxX == RSeqMax(allMax(its, "x"))
             maxY == RSeqMax(allMax(its, "y"))
             x == Floor(RSub(minX, RInt(margin)))
             y == Floor(RSub(minY, RInt(margin)))
             w == Ceil(RAdd(RSub(maxX, minX), RInt(margin * 2)))
             h == Ceil(RAdd(RSub(maxY, minY), RInt(margin * 2)))
         IN  [x |-> x, y |-> y, w |-> Max(1, w), h |-> Max(1, h)]

\* exportPDF up to its await: the request is sent
exportPDF ==
  LET f == IF drawing # NULL THEN finalizeStroke
           ELSE [items |-> items, undoStack |-> undoStack,
                 redoStack |-> redoStack, drawing |-> drawing]
      snapshot == f.items
      bounds == computeContentBounds(snapshot)
  IN  /\ items' = f.items
      /\ undoStack' = f.undoStack
      /\ redoStack' = f.redoStack
      /\ drawing' = f.drawing
      /\ pending' = Append(pending,
                           [op |-> "exportPDF",
                            title |-> Trim(IF title = <<>> THEN <<"Note">> ELSE title),
                            strokes |-> snapshot, crop |-> bounds])
      /\ UNCHANGED <<tool, capture, marqueeVars, pointerDown, viewVars, panVars,
                     selectedIdx, editingTextIdx, noteId, title, folderId, db>>

\* the answer to exportPDF arrives: a toast at most
exportPDFDone ==
  /\ pending # <<>>
  /\ pending[1].op = "exportPDF"
  /\ pending' = Tail(pending)
  /\ UNCHANGED <<editorVars, noteId, title, folderId, db>>

----------------------------------------------------------------------------
(* Keyboard, toolbar and text overlay *)

Undo ==
  LET r == undo(Hist)
  IN  /\ items' = r.items
      /\ undoStack' = r.undoStack
      /\ redoStack' = r.redoStack
      /\ selectedIdx' = r.selectedIdx
      /\ UNCHANGED <<tool, capture, drawing, marqueeVars, pointerDown, viewVars, panVars,
                     editingTextIdx>>

Redo ==
  LET r == redo(Hist)
  IN  /\ items' = r.items
      /\ undoStack' = r.undoStack
      /\ redoStack' = r.redoStack
      /\ selectedIdx' = r.selectedIdx
      /\ UNCHANGED <<tool, capture, drawing, marqueeVars, pointerDown, viewVars, panVars,
                     editingTextIdx>>

InSeq(s, v) == \E k \in 1..Len(s) : s[k] = v

RECURSIVE DropSelected(_, _, _)
\* items.filter((_, i) => !sel.includes(i)), scanning from 1-based index k
DropSelected(its, sel, k) ==
  IF k > Len(its) THEN <<>>
  ELSE IF InSeq(sel, k - 1) THEN DropSelected(its, sel, k + 1)
       ELSE <<its[k]>> \o DropSelected(its, sel, k + 1)

\* Delete leaving the selection as it was
DeleteSelectedKeepsSelection ==
  /\ editingTextIdx = NULL
  /\ selectedIdx # <<>>
  /\ undoStack' = pushHistory(undoStack, items)
  /\ redoStack' = <<>>
  /\ items' = DropSelected(items, selectedIdx, 1)
  /\ UNCHANGED <<tool, capture, drawing, marqueeVars, pointerDown, viewVars, panVars,
                 editingTextIdx, selectedIdx>>

\* Delete removing only the first selected item
DeleteSelectedFirstOnly ==
  /\ editingTextIdx = NULL
  /\ selectedIdx # <<>>
  /\ undoStack' = pushHistory(undoStack, items)
  /\ redoStack' = <<>>
  /\ items' = DropSelected(items, <<selectedIdx[1]>>, 1)
  /\ selectedIdx' = <<>>
  /\ UNCHANGED <<tool, capture, drawing, marqueeVars, pointerDown, viewVars, panVars,
                 editingTextIdx>>

\* onKey: Delete with a selection
DeleteSelected ==
  /\ editingTextIdx = NULL
  /\ selectedIdx # <<>>
  /\ undoStack' = pushHistory(undoStack, items)
  /\ redoStack' = <<>>
  /\ items' = DropSelected(items, selectedIdx, 1)
  /\ selectedIdx' = <<>>
  /\ UNCHANGED <<tool, capture, drawing, marqueeVars, pointerDown, viewVars, panVars,
                 editingTextIdx>>

\* setTool(t) with no cleanup effect
ToolChangeNoCleanup(t) ==
  /\ t # tool
  /\ tool' = t
  /\ UNCHANGED <<histVars, drawing, marqueeVars, selectedIdx, pointerDown,
                 viewVars, panVars, editingTextIdx, capture>>

\* setTool(t) and the cleanup effect that runs when the tool changed
ToolChange(t) ==
  /\ t # tool
  /\ tool' = t
  /\ IF t # "select"
       THEN /\ selectedIdx' = <<>>
            /\ selectionRect' = NULL
            /\ selectionStart' = NULL
       ELSE UNCHANGED <<selectedIdx, selectionRect, selectionStart>>
  /\ UNCHANGED <<histVars, drawing, selectionDragging, pointerDown, viewVars,
                 panVars, editingTextIdx, capture>>

\* onKey: p / t / s / e (ignored while a text box is edited)
ToolShortcut(t) == editingTextIdx = NULL /\ ToolChange(t)

\* the toolbar buttons
ToolButton(t) == ToolChange(t)

\* the overlay is rendered when the editing index names a text box
OverlayShown ==
  /\ editingTextIdx # NULL
  /\ Val(editingTextIdx) + 1 \in 1..Len(items)
  /\ items[Val(editingTextIdx) + 1].kind = "text"

\* textarea onChange pushing history for the keystroke
TextChangePushesHistory(txt) ==
  /\ OverlayShown
  /\ items' = [items EXCEPT ![Val(editingTextIdx) + 1].text = txt]
  /\ undoStack' = pushHistory(undoStack, items)
  /\ redoStack' = <<>>
  /\ UNCHANGED <<tool, capture, drawing, marqueeVars, pointerDown,
                 viewVars, panVars, selectedIdx, editingTextIdx>>

\* textarea onChange
TextChange(txt) ==
  /\ OverlayShown
  /\ items' = [items EXCEPT ![Val(editingTextIdx) + 1].text = txt]
  /\ UNCHANGED <<tool, capture, undoStack, redoStack, drawing, marqueeVars, pointerDown,
                 viewVars, panVars, selectedIdx, editingTextIdx>>

\* textarea onBlur
TextBlur ==
  /\ OverlayShown
  /\ editingTextIdx' = NULL
  /\ UNCHANGED <<tool, capture, histVars, drawing, marqueeVars, pointerDown, viewVars,
                 panVars, selectedIdx>>

----------------------------------------------------------------------------
(* Note load: the body of the load effect once getNote has answered (or at  *)
(* once, for noteId = null).  raw is note.strokes as stored.                *)

\* 'kind' in r ? r : { kind: 'stroke', ...r }
upgrade(r) ==
  IF "kind" \in DOMAIN r THEN r
  ELSE [kind |-> "stroke", points |-> r.points, color |-> r.color,
        width |-> r.width]

loadEffect(raw) ==
  /\ items' = [i \in 1..Len(raw) |-> upgrade(raw[i])]
  /\ undoStack' = <<>>
  /\ redoStack' = <<>>
  /\ selectedIdx' = <<>>
  /\ editingTextIdx' = NULL
  /\ UNCHANGED <<tool, capture, drawing, marqueeVars, pointerDown, viewVars, panVars>>

\* The load effect for noteId = null: it runs to its end at once.
loadNew ==
  /\ title' = Untitled
  /\ loadEffect(<<>>)
  /\ folderId' = NULL

\* The load effect once getNote has answered with note (NULL: undefined).
\* Reading note.title of undefined throws; raw.map throws for a value that
\* is no array, and its callback's `'kind' in r` throws for an element that
\* is no object: the effect ends there, title already set.
loadAnswer(note) ==
  IF note = NULL
    THEN UNCHANGED <<editorVars, title, folderId>>
    ELSE LET n == Val(note)
         IN  /\ title' = n.title
             /\ IF n.strokes.type \in {"object", "numbers"}
                  THEN UNCHANGED <<editorVars, folderId>>
                  ELSE /\ loadEffect(IF n.strokes.type = "null" THEN <<>>
                                     ELSE n.strokes.elems)
                       /\ folderId' = n.folderId

getNoteRequest(id) == [op |-> "getNote", noteId |-> id]

\* getNote answers the oldest request
loadDone ==
  /\ pending # <<>>
  /\ pending[1].op = "getNote"
  /\ loadAnswer(NoteServiceGet(db, pending[1].noteId))
  /\ pending' = Tail(pending)
  /\ UNCHANGED <<noteId, db>>

\* NotesList onOpen(id): App sets currentNoteId; the load effect runs when
\* the prop changed and sends getNote
onOpen(id) ==
  /\ noteId # Some(id)
  /\ noteId' = Some(id)
  /\ pending' = Append(pending, getNoteRequest(id))
  /\ UNCHANGED <<editorVars, title, folderId, db>>

\* NotesList onNew
onNew ==
  /\ noteId # NULL
  /\ noteId' = NULL
  /\ loadNew
  /\ UNCHANGED <<db, pending>>

\* NotesList deleteNote(id), confirmed
deleteNote(id) ==
  /\ db' = [db EXCEPT ![id] = NULL]
  /\ UNCHANGED <<editorVars, noteId, title, folderId, pending>>

\* save up to its await: the request is sent
save ==
  LET f == IF drawing # NULL THEN finalizeStroke
           ELSE [items |-> items, undoStack |-> undoStack,
                 redoStack |-> redoStack, drawing |-> drawing]
      snapshot == f.items
  IN  /\ items' = f.items
      /\ undoStack' = f.undoStack
      /\ redoStack' = f.redoStack
      /\ drawing' = f.drawing
      /\ pending' = Append(pending,
                           [op |-> "saveNote", noteId |-> noteId, title |-> title,
                            strokes |-> snapshot, tagNames |-> <<>>,
                            folderId |-> folderId])
      /\ UNCHANGED <<tool, capture, marqueeVars, pointerDown, viewVars, panVars,
                     selectedIdx, editingTextIdx, noteId, title, folderId, db>>

\* saveNote answers the oldest request: NoteService.save runs, and with the
\* id it returns save calls onSaved(id), which sets App's currentNoteId; a
\* changed noteId starts the load effect.  When save throws the await
\* rejects and nothing follows.
saveDone ==
  /\ pending # <<>>
  /\ pending[1].op = "saveNote"
  /\ LET r == NoteServiceSave(db, pending[1])
     IN  IF r.threw
           THEN /\ pending' = Tail(pending)
                /\ UNCHANGED <<noteId, db>>
           ELSE /\ db' = r.db
                /\ noteId' = Some(r.noteId)
                /\ pending' = IF noteId # Some(r.noteId)
                                THEN Append(Tail(pending), getNoteRequest(r.noteId))
                                ELSE Tail(pending)
  /\ UNCHANGED <<editorVars, title, folderId>>

\* the title input's onChange
setTitle(t) ==
  /\ title' = t
  /\ UNCHANGED <<editorVars, noteId, folderId, db, pending>>

\* the folder select's onChange
setFolderId(f) ==
  /\ folderId' = f
  /\ UNCHANGED <<editorVars, noteId, title, db, pending>>

----------------------------------------------------------------------------
(* Spec: one editing session on one note.  Pointer events arrive at the     *)
(* client positions ClientPts; an event that would push history is sent     *)
(* only while fewer than MaxEdits snapshots are on the undo stack, and a    *)
(* pointer-move while a stroke is drawn goes to a new position and is sent  *)
(* only while the stroke has fewer than MaxPts points.                      *)

ClientPts == {Pt(0, 0), Pt(20, 0)}

\* What storage holds: nothing (a new note, noteId = null) and one note
\* with a legacy stroke (no kind field) and a text box.
StoredScenes ==
  { <<>>,
    << [points |-> <<Pt(0, 0), Pt(20, 0)>>, color |-> "#222", width |-> 2],
       [kind |-> "text", x |-> 10, y |-> -10, w |-> 50, h |-> 50, text |-> "a"] >> }

Room == Len(undoStack) < MaxEdits
CommitRoom == (tool = "pen" /\ drawing # NULL) => Room

PrimaryDown ==
  \E c \in ClientPts :
    /\ Room
    /\ onCanvasPointerDown(0, c)
    /\ UNCHANGED <<counters, storeVars>>

PointerMove ==
  \E c \in ClientPts :
    /\ drawing # NULL => /\ Len(Val(drawing).points) < MaxPts
                         /\ ~EndsAt(Val(drawing).points, toCanvasPoint(c))
    /\ onCanvasPointerMove(c)
    /\ UNCHANGED <<counters, storeVars>>

PointerUp ==
  \E c \in ClientPts : CommitRoom /\ onCanvasPointerUp(c) /\ UNCHANGED <<counters, storeVars>>

PointerCancel == CommitRoom /\ onCanvasPointerCancel /\ UNCHANGED <<counters, storeVars>>

MouseUp == CommitRoom /\ windowMouseUp /\ UNCHANGED <<counters, storeVars>>

KeyUndo == Undo /\ UNCHANGED <<counters, storeVars>>

KeyRedo == Redo /\ UNCHANGED <<counters, storeVars>>

KeyDelete == Room /\ DeleteSelected /\ UNCHANGED <<counters, storeVars>>

\* a tool shortcut, or (the one case where they differ) a toolbar button
\* pressed while a text box is edited
SetTool ==
  \E t \in Tools :
    /\ ToolShortcut(t) \/ (editingTextIdx # NULL /\ ToolButton(t))
    /\ UNCHANGED <<counters, storeVars>>

Blur == TextBlur /\ UNCHANGED <<counters, storeVars>>

NoteLoad == \E raw \in StoredScenes : loadEffect(raw) /\ UNCHANGED <<counters, storeVars>>

Next ==
  \/ PrimaryDown
  \/ PointerMove
  \/ PointerUp
  \/ PointerCancel
  \/ MouseUp
  \/ KeyUndo
  \/ KeyRedo
  \/ KeyDelete
  \/ SetTool
  \/ Blur
  \/ NoteLoad

Spec == Init /\ [][Next]_vars

----------------------------------------------------------------------------
(* SpecUndoAll: N pen strokes, then undo called repeatedly.  nStrokes       *)
(* counts the strokes committed, nUndos the calls of undo.                  *)

HistStrokes == HISTORY_LIMIT + 2

\* where a stroke of a history scenario may go: anywhere for the first
\* FreeStrokes strokes, the origin afterwards
StrokePts == IF Len(items) < FreeStrokes THEN ClientPts ELSE {Pt(0, 0)}

StrokeDown ==
  \E c \in StrokePts :
    /\ nUndos = 0
    /\ nStrokes < HistStrokes
    /\ drawing = NULL
    /\ onCanvasPointerDown(0, c)
    /\ UNCHANGED <<counters, storeVars>>

StrokeMove ==
  \E c \in StrokePts :
    /\ drawing # NULL
    /\ Len(Val(drawing).points) < MaxPts
    /\ ~EndsAt(Val(drawing).points, toCanvasPoint(c))
    /\ onCanvasPointerMove(c)
    /\ UNCHANGED <<counters, storeVars>>

StrokeUp ==
  /\ drawing # NULL
  /\ onCanvasPointerUp(Last(Val(drawing).points))
  /\ nStrokes' = nStrokes + 1
  /\ UNCHANGED <<nUndos, nViewSteps, nRaced, storeVars>>

UndoCall ==
  /\ drawing = NULL
  /\ nStrokes >= 1
  /\ nUndos < nStrokes
  /\ Undo
  /\ nUndos' = nUndos + 1
  /\ UNCHANGED <<nStrokes, nViewSteps, nRaced, storeVars>>

NextUndoAll == StrokeDown \/ StrokeMove \/ StrokeUp \/ UndoCall

SpecUndoAll == Init /\ [][NextUndoAll]_vars

----------------------------------------------------------------------------
(* SpecHist: pen strokes, undo and redo in any order, far enough to fill    *)
(* the undo stack and evict.                                                *)

HistDown ==
  \E c \in StrokePts :
    /\ Len(items) < HistStrokes
    /\ drawing = NULL
    /\ onCanvasPointerDown(0, c)
    /\ UNCHANGED <<counters, storeVars>>

HistUp ==
  /\ drawing # NULL
  /\ onCanvasPointerUp(Last(Val(drawing).points))
  /\ UNCHANGED <<counters, storeVars>>

HistUndo == drawing = NULL /\ Undo /\ UNCHANGED <<counters, storeVars>>

HistRedo == drawing = NULL /\ Redo /\ UNCHANGED <<counters, storeVars>>

NextHist == HistDown \/ StrokeMove \/ HistUp \/ HistUndo \/ HistRedo

SpecHist == Init /\ [][NextHist]_vars

----------------------------------------------------------------------------
(* SpecGeom: hit testing.  The session starts on a loaded note whose scene  *)
(* is any arrangement of at most GeomItems of the items below, with the     *)
(* select or the erase tool chosen; pointer events arrive at GeomPts.       *)

GeomUniverse ==
  { [kind |-> "stroke", points |-> <<Pt(0, 0), Pt(20, 0)>>, color |-> "#222",
     width |-> 2],
    [kind |-> "stroke", points |-> <<Pt(50, 50)>>, color |-> "#222", width |-> 2],
    [kind |-> "stroke", points |-> <<Pt(60, 20), Pt(60, 120), Pt(120, 120)>>,
     color |-> "#222", width |-> 2],
    [kind |-> "text", x |-> 10, y |-> 10, w |-> 50, h |-> 50, text |-> "a"],
    [kind |-> "text", x |-> 0, y |-> 0, w |-> TextW, h |-> TextH, text |-> ""] }

GeomPts == {Pt(0, 0), Pt(10, 8), Pt(10, 9), Pt(20, 20), Pt(50, 50), Pt(100, 100)}

\* the sequences without repetition of at most n items of S
RECURSIVE Arrangements(_, _)
Arrangements(S, n) ==
  IF n = 0 THEN {<<>>}
  ELSE LET shorter == Arrangements(S, n - 1)
       IN  shorter \cup
           { Append(q, it) : q \in {a \in shorter : Len(a) = n - 1},
                             it \in S }

InitGeom ==
  /\ tool \in {"select", "erase"}
  /\ items \in {q \in Arrangements(GeomUniverse, GeomItems) :
                  \A i, j \in 1..Len(q) : i # j => q[i] # q[j]}
  /\ undoStack = <<>>
  /\ redoStack = <<>>
  /\ drawing = NULL
  /\ selectionRect = NULL
  /\ selectionStart = NULL
  /\ selectionDragging = FALSE
  /\ pointerDown = FALSE
  /\ offset = Pt(RInt(0), RInt(0))
  /\ scale = RInt(1)
  /\ panning = FALSE
  /\ panStart = NULL
  /\ panOrigin = NULL
  /\ selectedIdx = <<>>
  /\ editingTextIdx = NULL
  /\ capture = FALSE
  /\ noteId = NULL
  /\ title = Untitled
  /\ folderId = NULL
  /\ db = EmptyDb
  /\ pending = <<>>
  /\ nStrokes = 0
  /\ nUndos = 0
  /\ nViewSteps = 0
  /\ nRaced = 0

GeomDown == \E c \in GeomPts : onCanvasPointerDown(0, c) /\ UNCHANGED <<counters, storeVars>>

GeomMove == \E c \in GeomPts : onCanvasPointerMove(c) /\ UNCHANGED <<counters, storeVars>>

GeomUp == \E c \in GeomPts : onCanvasPointerUp(c) /\ UNCHANGED <<counters, storeVars>>

\* the Delete key, pressed between gestures
GeomDelete == ~pointerDown /\ DeleteSelected /\ UNCHANGED <<counters, storeVars>>

NextGeom == GeomDown \/ GeomMove \/ GeomUp \/ GeomDelete

SpecGeom == InitGeom /\ [][NextGeom]_vars

----------------------------------------------------------------------------
(* SpecView: panning and zooming around pen strokes.  The session starts    *)
(* at one of the scales ViewScales with the offset at the origin: the       *)
(* states reached from the initial one by zoom steps at the client origin   *)
(* (which leave the offset at 0): 15 steps in and one out and one in give   *)
(* 4 * 0.9 * 1.1, 22 steps out and one in give 0.1 * 1.1.  At most          *)
(* MaxViewSteps zoom steps and pan gestures follow.  Strokes are single     *)
(* points, put down where the world point is integral.                      *)

ViewScales == {RInt(1), Rat(99, 25), Rat(11, 100)}

WheelDeltas == {-100, 100}

InitView ==
  /\ tool = "pen"
  /\ items = <<>>
  /\ undoStack = <<>>
  /\ redoStack = <<>>
  /\ drawing = NULL
  /\ selectionRect = NULL
  /\ selectionStart = NULL
  /\ selectionDragging = FALSE
  /\ pointerDown = FALSE
  /\ offset = Pt(RInt(0), RInt(0))
  /\ scale \in ViewScales
  /\ panning = FALSE
  /\ panStart = NULL
  /\ panOrigin = NULL
  /\ selectedIdx = <<>>
  /\ editingTextIdx = NULL
  /\ capture = FALSE
  /\ noteId = NULL
  /\ title = Untitled
  /\ folderId = NULL
  /\ db = EmptyDb
  /\ pending = <<>>
  /\ nStrokes = 0
  /\ nUndos = 0
  /\ nViewSteps = 0
  /\ nRaced = 0

Wheel ==
  \E c \in ClientPts, deltaY \in WheelDeltas :
    /\ nViewSteps < MaxViewSteps
    /\ onWheel(c, deltaY)
    /\ nViewSteps' = nViewSteps + 1
    /\ UNCHANGED <<nStrokes, nUndos, nRaced, storeVars>>

PanDown ==
  \E c \in ClientPts :
    /\ nViewSteps < MaxViewSteps
    /\ ~panning
    /\ onCanvasPointerDown(2, c)
    /\ nViewSteps' = nViewSteps + 1
    /\ UNCHANGED <<nStrokes, nUndos, nRaced, storeVars>>

PanMove ==
  \E c \in ClientPts : panning /\ onCanvasPointerMove(c) /\ UNCHANGED <<counters, storeVars>>

ViewPenDown ==
  \E c \in ClientPts :
    /\ Room
    /\ drawing = NULL
    /\ Integral(c)
    /\ onCanvasPointerDown(0, c)
    /\ UNCHANGED <<counters, storeVars>>

ViewUp ==
  /\ panning \/ pointerDown
  /\ onCanvasPointerUp(Pt(0, 0))
  /\ UNCHANGED <<counters, storeVars>>

ViewCancel ==
  /\ panning \/ pointerDown
  /\ CommitRoom
  /\ onCanvasPointerCancel
  /\ UNCHANGED <<counters, storeVars>>

ViewUndo == drawing = NULL /\ Undo /\ UNCHANGED <<counters, storeVars>>

ViewRedo == drawing = NULL /\ Redo /\ UNCHANGED <<counters, storeVars>>

NextView ==
  \/ Wheel
  \/ PanDown
  \/ PanMove
  \/ ViewPenDown
  \/ ViewUp
  \/ ViewCancel
  \/ ViewUndo
  \/ ViewRedo

SpecView == InitView /\ [][NextView]_vars

----------------------------------------------------------------------------
(* SpecBounds: export of a scene.  The session starts on a scene of at most *)
(* BoundsItems of the items below, whose coordinates include halves, and    *)
(* exports it.                                                              *)

BoundsPts ==
  { Pt(RInt(0), RInt(0)), Pt(Rat(1, 2), Rat(1, 2)), Pt(RInt(100), RInt(100)),
    Pt(Rat(201, 2), Rat(201, 2)), Pt(RInt(0), RInt(100)) }

BoundsUniverse ==
  { [kind |-> "stroke", points |-> <<>>, color |-> "#222", width |-> 2] }
  \cup { [kind |-> "stroke", points |-> <<p>>, color |-> "#222", width |-> 2] :
           p \in BoundsPts }
  \cup { [kind |-> "stroke", points |-> <<p, q>>, color |-> "#222", width |-> 2] :
           p \in BoundsPts, q \in BoundsPts }
  \cup { [kind |-> "text", x |-> p.x, y |-> p.y, w |-> RInt(50), h |-> RInt(50),
          text |-> "a"] : p \in BoundsPts }

BoundsScenes ==
  UNION { [1..n -> BoundsUniverse] : n \in 0..BoundsItems }

InitBounds ==
  /\ tool = "pen"
  /\ items \in BoundsScenes
  /\ undoStack = <<>>
  /\ redoStack = <<>>
  /\ drawing = NULL
  /\ selectionRect = NULL
  /\ selectionStart = NULL
  /\ selectionDragging = FALSE
  /\ pointerDown = FALSE
  /\ offset = Pt(RInt(0), RInt(0))
  /\ scale = RInt(1)
  /\ panning = FALSE
  /\ panStart = NULL
  /\ panOrigin = NULL
  /\ selectedIdx = <<>>
  /\ editingTextIdx = NULL
  /\ capture = FALSE
  /\ noteId = NULL
  /\ title = Untitled
  /\ folderId = NULL
  /\ db = EmptyDb
  /\ pending = <<>>
  /\ nStrokes = 0
  /\ nUndos = 0
  /\ nViewSteps = 0
  /\ nRaced = 0

ExportStart == Len(pending) < MaxPending /\ exportPDF /\ UNCHANGED counters

ExportDone == exportPDFDone /\ UNCHANGED counters

NextBounds == ExportStart \/ ExportDone

SpecBounds == InitBounds /\ [][NextBounds]_vars

----------------------------------------------------------------------------
(* SpecStore: notes opened, edited, saved and deleted.  The table starts    *)
(* with note 1, whose scene is one stroke, and possibly note 2, whose       *)
(* strokes column holds one of StoredTexts.  Strokes are single points at   *)
(* the origin.  nRaced counts the strokes committed while a request was     *)
(* awaited.                                                                 *)

OriginStroke == NewStroke(Pt(0, 0))

StoredTexts ==
  { [json |-> "garbage"], [json |-> "object"], [json |-> "numbers"],
    [json |-> "null"], [json |-> "empty"] }

StoreDbs ==
  { [i \in NoteIds |->
       IF i = 1 THEN Some([title |-> <<"a">>, strokes |-> stringify(<<OriginStroke>>),
                           folderId |-> NULL, tags |-> {}])
       ELSE IF i = 2 THEN r ELSE NULL] :
    r \in {NULL} \cup { Some([title |-> <<"b">>, strokes |-> t, folderId |-> NULL,
                               tags |-> {}]) :
                          t \in StoredTexts } }

\* what is typed into the title input of a note not yet named
Titles == {<<" ", "a">>, <<" ">>}

InitStore ==
  /\ tool = "pen"
  /\ items = <<>>
  /\ undoStack = <<>>
  /\ redoStack = <<>>
  /\ drawing = NULL
  /\ selectionRect = NULL
  /\ selectionStart = NULL
  /\ selectionDragging = FALSE
  /\ pointerDown = FALSE
  /\ offset = Pt(RInt(0), RInt(0))
  /\ scale = RInt(1)
  /\ panning = FALSE
  /\ panStart = NULL
  /\ panOrigin = NULL
  /\ selectedIdx = <<>>
  /\ editingTextIdx = NULL
  /\ capture = FALSE
  /\ noteId = NULL
  /\ title = Untitled
  /\ folderId = NULL
  /\ db \in StoreDbs
  /\ pending = <<>>
  /\ nStrokes = 0
  /\ nUndos = 0
  /\ nViewSteps = 0
  /\ nRaced = 0

otherCounters == <<nStrokes, nUndos, nViewSteps>>

\* a stroke in progress is committed only to a scene of at most StoreItems
StoreRoom == drawing # NULL => (Room /\ Len(items) <= StoreItems)

\* nRaced after a step that answers a request
Settled == nRaced' = IF pending' = <<>> THEN 0 ELSE nRaced

StoreOpen ==
  \E id \in NoteIds :
    /\ Len(pending) < MaxPending
    /\ db[id] # NULL
    /\ onOpen(id)
    /\ UNCHANGED counters

StoreNew == onNew /\ UNCHANGED counters

StoreLoadDone == loadDone /\ Settled /\ UNCHANGED otherCounters

StoreSave ==
  /\ Len(pending) < MaxPending
  /\ noteId = NULL => lastInsertRowid(db) \in NoteIds
  /\ StoreRoom
  /\ save
  /\ UNCHANGED counters

StoreSaveDone == saveDone /\ Settled /\ UNCHANGED otherCounters

StoreDelete ==
  \E id \in NoteIds : db[id] # NULL /\ deleteNote(id) /\ UNCHANGED counters

StoreTitle ==
  \E t \in Titles : title = Untitled /\ setTitle(t) /\ UNCHANGED counters

StorePenDown ==
  /\ Room
  /\ drawing = NULL
  /\ Len(items) < StoreItems
  /\ onCanvasPointerDown(0, Pt(0, 0))
  /\ UNCHANGED <<counters, storeVars>>

StorePenUp ==
  /\ pointerDown
  /\ StoreRoom
  /\ onCanvasPointerUp(Pt(0, 0))
  /\ nRaced' = IF pending # <<>> /\ undoStack' # undoStack THEN nRaced + 1
               ELSE nRaced
  /\ UNCHANGED <<otherCounters, storeVars>>

NextStore ==
  \/ StoreOpen
  \/ StoreNew
  \/ StoreLoadDone
  \/ StoreSave
  \/ StoreSaveDone
  \/ StoreDelete
  \/ StoreTitle
  \/ StorePenDown
  \/ StorePenUp

SpecStore == InitStore /\ [][NextStore]_vars

----------------------------------------------------------------------------
(* SpecEdit: editing a loaded note with every tool, with undo and redo in   *)
(* between.  nStrokes counts the undoable edits made (the steps that change *)
(* the scene and push history), at most EditSteps; nUndos counts the calls  *)
(* of undo, at most UndoSteps.  Typing into the text overlay is not counted. *)
(* The strokes drawn are single points (no pointer-move is sent while one   *)
(* is drawn); the stroke of the loaded scene has a segment.                 *)

InitEdit ==
  /\ tool = "pen"
  /\ items \in { [i \in 1..Len(raw) |-> upgrade(raw[i])] : raw \in StoredScenes }
  /\ undoStack = <<>>
  /\ redoStack = <<>>
  /\ drawing = NULL
  /\ selectionRect = NULL
  /\ selectionStart = NULL
  /\ selectionDragging = FALSE
  /\ pointerDown = FALSE
  /\ offset = Pt(RInt(0), RInt(0))
  /\ scale = RInt(1)
  /\ panning = FALSE
  /\ panStart = NULL
  /\ panOrigin = NULL
  /\ selectedIdx = <<>>
  /\ editingTextIdx = NULL
  /\ capture = FALSE
  /\ noteId = NULL
  /\ title = Untitled
  /\ folderId = NULL
  /\ db = EmptyDb
  /\ pending = <<>>
  /\ nStrokes = 0
  /\ nUndos = 0
  /\ nViewSteps = 0
  /\ nRaced = 0

EditRoom == Room /\ nStrokes < EditSteps
EditCommitRoom == (tool = "pen" /\ drawing # NULL) => EditRoom

\* nStrokes after a step of an edit handler
EditCounted ==
  /\ nStrokes' = IF items' # items THEN nStrokes + 1 ELSE nStrokes
  /\ UNCHANGED <<nUndos, nViewSteps, nRaced, storeVars>>

EditDown ==
  \E c \in ClientPts : EditRoom /\ onCanvasPointerDown(0, c) /\ EditCounted

EditMove ==
  \E c \in ClientPts :
    /\ drawing = NULL
    /\ onCanvasPointerMove(c)
    /\ UNCHANGED <<counters, storeVars>>

EditUp ==
  \E c \in ClientPts : EditCommitRoom /\ onCanvasPointerUp(c) /\ EditCounted

EditCancel == EditCommitRoom /\ onCanvasPointerCancel /\ EditCounted

EditMouseUp == EditCommitRoom /\ windowMouseUp /\ EditCounted

EditDelete == EditRoom /\ DeleteSelected /\ EditCounted

\* what the textarea holds after a keystroke
TextInputs == {"a", "ab"}

EditText ==
  \E txt \in TextInputs : TextChange(txt) /\ UNCHANGED <<counters, storeVars>>

EditUndo ==
  /\ nUndos < UndoSteps
  /\ undoStack # <<>>
  /\ Undo
  /\ nUndos' = nUndos + 1
  /\ UNCHANGED <<nStrokes, nViewSteps, nRaced, storeVars>>

NextEdit ==
  \/ EditDown
  \/ EditMove
  \/ EditUp
  \/ EditCancel
  \/ EditMouseUp
  \/ EditDelete
  \/ EditText
  \/ EditUndo
  \/ KeyRedo
  \/ SetTool
  \/ Blur

SpecEdit == InitEdit /\ [][NextEdit]_vars

----------------------------------------------------------------------------
(* SpecMarquee: the select tool at several zoom scales.  The session        *)
(* starts on a loaded note at one of the scales MarqueeScales with the      *)
(* offset at the origin; primary-button gestures go through the client      *)
(* positions MarqueePts whose world point is integral.                      *)

MarqueeScales == {RInt(1), RInt(2), Rat(1, 2)}

MarqueePts == {Pt(0, 0), Pt(3, 0), Pt(6, 0), Pt(10, 0)}

InitMarquee ==
  /\ tool = "select"
  /\ items \in { [i \in 1..Len(raw) |-> upgrade(raw[i])] : raw \in StoredScenes }
  /\ undoStack = <<>>
  /\ redoStack = <<>>
  /\ drawing = NULL
  /\ selectionRect = NULL
  /\ selectionStart = NULL
  /\ selectionDragging = FALSE
  /\ pointerDown = FALSE
  /\ offset = Pt(RInt(0), RInt(0))
  /\ scale \in MarqueeScales
  /\ panning = FALSE
  /\ panStart = NULL
  /\ panOrigin = NULL
  /\ selectedIdx = <<>>
  /\ editingTextIdx = NULL
  /\ capture = FALSE
  /\ noteId = NULL
  /\ title = Untitled
  /\ folderId = NULL
  /\ db = EmptyDb
  /\ pending = <<>>
  /\ nStrokes = 0
  /\ nUndos = 0
  /\ nViewSteps = 0
  /\ nRaced = 0

MarqueeDown ==
  \E c \in MarqueePts :
    /\ Integral(c)
    /\ ~pointerDown
    /\ onCanvasPointerDown(0, c)
    /\ UNCHANGED <<counters, storeVars>>

MarqueeMove ==
  \E c \in MarqueePts :
    /\ Integral(c)
    /\ onCanvasPointerMove(c)
    /\ UNCHANGED <<counters, storeVars>>

MarqueeUp ==
  \E c \in MarqueePts :
    /\ Integral(c)
    /\ pointerDown
    /\ onCanvasPointerUp(c)
    /\ UNCHANGED <<counters, storeVars>>

NextMarquee == MarqueeDown \/ MarqueeMove \/ MarqueeUp

SpecMarquee == InitMarquee /\ [][NextMarquee]_vars

----------------------------------------------------------------------------
(* SpecSave: saving from the editor.  The editor holds a new note, or note *)
(* 1 opened and loaded; strokes are drawn and undone, the tool changes,    *)
(* tags of the open note are toggled, and the note is saved.  No note is   *)
(* opened, so every getNote request is one that a save started, and no     *)
(* edit is made while a request is on its way.                             *)

SaveItems == 2
TagNames == {"t"}

\* the editor with note id (NULL: a new note) loaded from table d
SaveLoaded(d, id) ==
  /\ db = d
  /\ noteId = id
  /\ title = IF id = NULL THEN Untitled ELSE Val(NoteServiceGet(d, Val(id))).title
  /\ items = IF id = NULL THEN <<>>
             ELSE LET raw == Val(NoteServiceGet(d, Val(id))).strokes.elems
                  IN  [i \in 1..Len(raw) |-> upgrade(raw[i])]

InitSave ==
  /\ tool = "pen"
  /\ undoStack = <<>>
  /\ redoStack = <<>>
  /\ drawing = NULL
  /\ selectionRect = NULL
  /\ selectionStart = NULL
  /\ selectionDragging = FALSE
  /\ pointerDown = FALSE
  /\ offset = Pt(RInt(0), RInt(0))
  /\ scale = RInt(1)
  /\ panning = FALSE
  /\ panStart = NULL
  /\ panOrigin = NULL
  /\ selectedIdx = <<>>
  /\ editingTextIdx = NULL
  /\ capture = FALSE
  /\ folderId = NULL
  /\ \/ SaveLoaded(EmptyDb, NULL)
     \/ SaveLoaded([i \in NoteIds |->
                      IF i = 1
                        THEN Some([title |-> <<"a">>,
                                   strokes |-> stringify(<<OriginStroke>>),
                                   folderId |-> NULL, tags |-> {}])
                        ELSE NULL], Some(1))
  /\ pending = <<>>
  /\ nStrokes = 0
  /\ nUndos = 0
  /\ nViewSteps = 0
  /\ nRaced = 0

\* TagManager toggle(tagId) for the open note
toggle(t) ==
  /\ noteId # NULL
  /\ db[Val(noteId)] # NULL
  /\ db' = IF t \in Val(db[Val(noteId)]).tags
             THEN removeTag(db, Val(noteId), t)
             ELSE assignTag(db, Val(noteId), t)
  /\ UNCHANGED <<editorVars, noteId, title, folderId, pending>>

SaveDown ==
  /\ pending = <<>>
  /\ Room
  /\ Len(items) < SaveItems
  /\ onCanvasPointerDown(0, Pt(0, 0))
  /\ UNCHANGED <<counters, storeVars>>

SaveUp ==
  /\ pending = <<>>
  /\ CommitRoom
  /\ onCanvasPointerUp(Pt(0, 0))
  /\ UNCHANGED <<counters, storeVars>>

SaveUndo == pending = <<>> /\ drawing = NULL /\ KeyUndo

SaveRedo == pending = <<>> /\ drawing = NULL /\ KeyRedo

SaveTool == pending = <<>> /\ SetTool

SaveBlur == pending = <<>> /\ Blur

SaveToggle == \E t \in TagNames : pending = <<>> /\ toggle(t) /\ UNCHANGED counters

SaveSave ==
  /\ pending = <<>>
  /\ noteId = NULL => lastInsertRowid(db) \in NoteIds
  /\ CommitRoom
  /\ save
  /\ UNCHANGED counters

SaveSaveDone == saveDone /\ UNCHANGED counters

SaveLoadDone == loadDone /\ UNCHANGED counters

NextSave ==
  \/ SaveDown
  \/ SaveUp
  \/ SaveUndo
  \/ SaveRedo
  \/ SaveTool
  \/ SaveBlur
  \/ SaveToggle
  \/ SaveSave
  \/ SaveSaveDone
  \/ SaveLoadDone

SpecSave == InitSave /\ [][NextSave]_vars

----------------------------------------------------------------------------
(* Properties *)

\* C1 (SpecUndoAll): after N pen strokes from the empty scene, 1 <= N <= 10,
\* and N calls of undo, the scene is empty.
C1_UndoAllEmpties ==
  (nStrokes \in 1..HISTORY_LIMIT /\ nUndos = nStrokes) => items = <<>>

\* ten strokes were committed, undo was called ten times
C1_Witness ==
  /\ nStrokes = HISTORY_LIMIT
  /\ nUndos = HISTORY_LIMIT
  /\ Len(redoStack) = HISTORY_LIMIT
  /\ items = <<>>

\* C2 as claimed (Spec): in every reachable state, undo followed at once by
\* redo leaves the scene as it was before the undo.
C2_UndoRedoAlways == redo(undo(Hist)).items = items

\* C2 as amended (Spec): in every reachable state whose undo stack is not
\* empty, undo followed at once by redo leaves the scene as it was.
C2_UndoRedoRestores == undoStack # <<>> => redo(undo(Hist)).items = items

\* an undo that changes the scene is possible here
C2_Witness ==
  /\ undoStack # <<>>
  /\ items # <<>>
  /\ undo(Hist).items # items

\* a step that commits a stroke, and so pushes, while the undo stack is full
FullPush ==
  /\ Len(undoStack) = HISTORY_LIMIT
  /\ drawing # NULL
  /\ drawing' = NULL
  /\ items' # items

\* C3 (SpecHist): the undo stack never holds more than 10 snapshots, and a
\* push onto a stack of 10 drops the oldest and keeps the other 9 in order
\* below the new entry (the scene before the edit).
C3_HistoryBounded ==
  /\ [](Len(undoStack) <= HISTORY_LIMIT)
  /\ [][FullPush => undoStack' = Append(Tail(undoStack), items)]_vars

\* the stack is full and its oldest entry is no longer the empty scene
C3_Witness ==
  /\ Len(undoStack) = HISTORY_LIMIT
  /\ undoStack[1] # <<>>
  /\ redoStack = <<>>

\* C4 as claimed (Spec): a tool change while a stroke is in progress
\* commits that stroke: afterwards it is the last item of the scene and no
\* stroke is in progress.
C4_ToolSwitchFinalizes ==
  [][(tool' # tool /\ drawing # NULL)
       => (drawing' = NULL /\ items' = Append(items, Val(drawing)))]_vars

\* C5 as claimed (Spec): after a pointer-up or pointer-cancel no stroke is
\* in progress; one that was has been appended to the scene with exactly
\* one history push, whatever the tool.
C5_ReleaseFinalizes ==
  [][((\E c \in ClientPts : onCanvasPointerUp(c)) \/ onCanvasPointerCancel)
       => /\ drawing' = NULL
          /\ drawing # NULL => /\ items' = Append(items, Val(drawing))
                               /\ undoStack' = Append(undoStack, items)]_vars

\* the scene's structure: its items without the text typed into the boxes
Structure(its) ==
  [i \in 1..Len(its) |->
     IF its[i].kind = "text" THEN [its[i] EXCEPT !.text = ""] ELSE its[i]]

\* C6 (Spec): every selected index is an index of the current scene, and a
\* step that changes the scene's structure leaves the selection empty.
C6_SelectionValid ==
  /\ [](\A k \in 1..Len(selectedIdx) :
          selectedIdx[k] >= 0 /\ selectedIdx[k] < Len(items))
  /\ [][Structure(items') # Structure(items) => selectedIdx' = <<>>]_vars

\* an item is selected in a scene that an edit made shorter
C6_Witness ==
  /\ selectedIdx # <<>>
  /\ undoStack # <<>>
  /\ Len(Last(undoStack)) > Len(items)

StrokesHavePoints(its) ==
  \A i \in 1..Len(its) : its[i].kind = "stroke" => Len(its[i].points) >= 1

\* C7 (Spec): every stroke of the scene and of every undo or redo snapshot
\* has at least one point.
C7_NoEmptyStroke ==
  /\ StrokesHavePoints(items)
  /\ \A k \in 1..Len(undoStack) : StrokesHavePoints(undoStack[k])
  /\ \A k \in 1..Len(redoStack) : StrokesHavePoints(redoStack[k])

\* a stroke drawn without a pointer-move was committed and then undone: it
\* is in a redo snapshot
C7_Witness ==
  \E k \in 1..Len(redoStack) :
    \E i \in 1..Len(redoStack[k]) :
      redoStack[k][i].kind = "stroke" /\ Len(redoStack[k][i].points) = 1

\* (x, y) lies in no text box and farther than threshold from every
\* segment of every stroke of its
NothingNear(its, x, y) ==
  \A i \in 1..Len(its) :
    IF its[i].kind = "text"
      THEN x < its[i].x \/ x > its[i].x + its[i].w \/ y < its[i].y
           \/ y > its[i].y + its[i].h
      ELSE \A j \in 1..(Len(its[i].points) - 1) :
             ~DistLE(pointNearSegment(x, y, its[i].points[j].x,
                                      its[i].points[j].y,
                                      its[i].points[j + 1].x,
                                      its[i].points[j + 1].y), threshold)

\* C8 (SpecGeom): an erase at a point with nothing near leaves the scene
\* and both stacks unchanged.
C8_EraseMissFrame ==
  [][\A c \in GeomPts :
       (tool = "erase" /\ onCanvasPointerDown(0, c)
        /\ NothingNear(items, toCanvasPoint(c).x, toCanvasPoint(c).y))
         => UNCHANGED <<items, undoStack, redoStack>>]_vars

\* the erase tool went down on a scene holding a text box and a stroke with
\* a segment, and nothing was ever removed
C8_Witness ==
  /\ tool = "erase"
  /\ pointerDown
  /\ undoStack = <<>>
  /\ \E i, j \in 1..Len(items) :
       /\ items[i].kind = "text"
       /\ items[j].kind = "stroke" /\ Len(items[j].points) >= 2

\* the 0-based indices of the items of its hit at p
HitSet(its, p) ==
  {i \in 0..(Len(its) - 1) :
     IF its[i + 1].kind = "text"
       THEN p.x >= its[i + 1].x /\ p.x <= its[i + 1].x + its[i + 1].w
            /\ p.y >= its[i + 1].y /\ p.y <= its[i + 1].y + its[i + 1].h
       ELSE \E j \in 1..(Len(its[i + 1].points) - 1) :
              DistLE(pointNearSegment(p.x, p.y, its[i + 1].points[j].x,
                                      its[i + 1].points[j].y,
                                      its[i + 1].points[j + 1].x,
                                      its[i + 1].points[j + 1].y),
                     clickThreshold)}

TopOf(S) == IF S = {} THEN <<>> ELSE <<CHOOSE i \in S : \A j \in S : j <= i>>

\* C9 (SpecGeom): a pointer-up of the select tool that ends no marquee drag
\* selects the highest index hit at the release point, or nothing.
C9_ClickSelectsTopmost ==
  [][\A c \in GeomPts :
       (tool = "select" /\ ~(selectionDragging /\ selectionRect # NULL)
        /\ onCanvasPointerUp(c))
         => selectedIdx' = TopOf(HitSet(items, toCanvasPoint(c)))]_vars

\* a click where a text box lies over a stroke, both hit, selected the box
C9_Witness ==
  /\ tool = "select"
  /\ ~pointerDown
  /\ ~selectionDragging
  /\ selectionStart # NULL
  /\ Len(items) = 2
  /\ items[1].kind = "stroke"
  /\ items[2].kind = "text"
  /\ HitSet(items, Val(selectionStart)) = {0, 1}
  /\ selectedIdx = <<1>>

\* the 0-based indices the marquee r = [x, y, w, h] is to select: text
\* boxes inside r, strokes with a point on each side of each edge of r
MarqueeSet(its, r) ==
  {i \in 0..(Len(its) - 1) :
     LET it == its[i + 1]
     IN  IF it.kind = "text"
           THEN /\ r.x <= it.x /\ it.x + it.w <= r.x + r.w
                /\ r.y <= it.y /\ it.y + it.h <= r.y + r.h
           ELSE /\ \E k \in 1..Len(it.points) : it.points[k].x <= r.x + r.w
                /\ \E k \in 1..Len(it.points) : it.points[k].x >= r.x
                /\ \E k \in 1..Len(it.points) : it.points[k].y <= r.y + r.h
                /\ \E k \in 1..Len(it.points) : it.points[k].y >= r.y}

Range(s) == {s[k] : k \in 1..Len(s)}

SpanRect(a, b) ==
  [x |-> Min(a.x, b.x), y |-> Min(a.y, b.y), w |-> Abs(b.x - a.x),
   h |-> Abs(b.y - a.y)]

\* C10 (SpecGeom): the selection set by a pointer-move of a marquee
\* gesture, and by the pointer-up that ends a marquee drag, is exactly the
\* text boxes contained in the rectangle and the strokes whose bounding box
\* meets it, touching included.
C10_MarqueeSelection ==
  [][/\ \A c \in GeomPts :
          (tool = "select" /\ ~panning /\ pointerDown /\ selectionStart # NULL
           /\ onCanvasPointerMove(c))
            => Range(selectedIdx') =
                 MarqueeSet(items, SpanRect(Val(selectionStart), toCanvasPoint(c)))
     /\ \A c \in GeomPts :
          (tool = "select" /\ selectionDragging /\ selectionRect # NULL
           /\ onCanvasPointerUp(c))
            => Range(selectedIdx') = MarqueeSet(items, Val(selectionRect))]_vars

\* the marquee (0,0,100,100) is being dragged and the text box
\* (10,10,50,50) is selected
C10_Witness ==
  /\ selectionRect = Some([x |-> 0, y |-> 0, w |-> 100, h |-> 100])
  /\ \E i \in 1..Len(items) :
       /\ items[i] = [kind |-> "text", x |-> 10, y |-> 10, w |-> 50, h |-> 50,
                      text |-> "a"]
       /\ InSeq(selectedIdx, i - 1)

\* a step of a pan gesture or a zoom step
ViewStep ==
  \/ nViewSteps' # nViewSteps
  \/ panning' # panning
  \/ panning /\ offset' # offset

\* C11 (SpecView): every pan step (right-button pointer-down, pointer-move
\* while panning, pointer-up ending the pan) and every zoom step leaves the
\* scene, the undo stack and the redo stack unchanged.
C11_ViewFrame == [][ViewStep => UNCHANGED <<items, undoStack, redoStack>>]_vars

\* a pan that has moved the view is under way with a stroke in progress and
\* an undone edit on the redo stack
C11_Witness ==
  /\ panning
  /\ offset # Val(panOrigin)
  /\ drawing # NULL
  /\ redoStack # <<>>

\* C12 (SpecView): a zoom step at the screen point c, clamped or not, leaves
\* the world point under c where it was.
C12_ZoomAnchor ==
  [][\A c \in ClientPts :
       (\E deltaY \in WheelDeltas : onWheel(c, deltaY))
         => worldPointAt(c, offset', scale') = worldPointAt(c, offset, scale)]_vars

\* the scale was clamped to 4 by a zoom step away from the client origin
C12_Witness == scale = MaxScale /\ offset.x # RInt(0)

\* the scale after two steps in and two steps out, from scale s
ZoomRoundTrip(s) ==
  nextScale(nextScale(nextScale(nextScale(s, -100), -100), 100), 100)

\* no step of the round trip from s is clamped
RoundTripUnclamped(s) ==
  /\ RLe(RMul(RMul(s, ZoomIn), ZoomIn), MaxScale)
  /\ RLe(MinScale, RMul(RMul(RMul(RMul(s, ZoomIn), ZoomIn), ZoomOut), ZoomOut))

\* C13 as claimed (SpecView): from a scale at which no step is clamped, two
\* zoom steps in followed by two zoom steps out give the scale back.
C13_ZoomRoundTrip == RoundTripUnclamped(scale) => ZoomRoundTrip(scale) = scale

\* C14 (SpecView): the scale is at least 0.1 and at most 4 in every state.
C14_ScaleBounded == RLe(MinScale, scale) /\ RLe(scale, MaxScale)

\* the scale was clamped to 0.1 by a zoom step
C14_Witness == scale = MinScale /\ nViewSteps >= 1

\* the x (y) values the items of its reach: stroke points, and both edges
\* of the text boxes
Reach(its, axis) ==
  UNION { IF its[i].kind = "stroke"
            THEN {IF axis = "x" THEN its[i].points[j].x ELSE its[i].points[j].y :
                    j \in 1..Len(its[i].points)}
            ELSE IF axis = "x" THEN {its[i].x, RAdd(its[i].x, its[i].w)}
                 ELSE {its[i].y, RAdd(its[i].y, its[i].h)} : i \in 1..Len(its) }

Least(S) == CHOOSE v \in S : \A u \in S : RLe(v, u)
Greatest(S) == CHOOSE v \in S : \A u \in S : RLe(u, v)

\* b is the bounding box of its grown by 24 on every side and rounded outward
GrownBox(its, b) ==
  /\ b.x = Floor(RSub(Least(Reach(its, "x")), RInt(24)))
  /\ b.y = Floor(RSub(Least(Reach(its, "y")), RInt(24)))
  /\ b.x + b.w = Ceil(RAdd(Greatest(Reach(its, "x")), RInt(24)))
  /\ b.y + b.h = Ceil(RAdd(Greatest(Reach(its, "y")), RInt(24)))

\* C15 as claimed (SpecBounds): the crop of an export is {0, 0, 600, 400}
\* for a scene without finite bounds, and otherwise the bounding box of the
\* scene grown by 24 on every side and rounded outward.
C15_ContentBounds ==
  \A k \in 1..Len(pending) :
    pending[k].op = "exportPDF" =>
      IF Reach(pending[k].strokes, "x") = {}
        THEN pending[k].crop = [x |-> 0, y |-> 0, w |-> 600, h |-> 400]
        ELSE GrownBox(pending[k].strokes, pending[k].crop)

\* a step in which the oldest request, a getNote, is answered
LoadCompletes == pending # <<>> /\ pending[1].op = "getNote" /\ pending' # pending

\* the note of the oldest request is stored with a well-formed scene
LoadsWell ==
  /\ db[pending[1].noteId] # NULL
  /\ Val(db[pending[1].noteId]).strokes.json = "array"

\* C16 as claimed (SpecStore): once the note switched to is loaded, no
\* stroke is in progress, no text box is edited and both stacks are empty.
C16_SwitchDiscards ==
  [][((LoadCompletes /\ LoadsWell) \/ (noteId # NULL /\ noteId' = NULL))
       => /\ drawing' = NULL
          /\ editingTextIdx' = NULL
          /\ undoStack' = <<>>
          /\ redoStack' = <<>>]_vars

\* C18 (SpecView): a pointer-up or pointer-cancel that arrives while the
\* capture is held, for a pan or for a primary-button gesture, leaves it
\* released.
C18_CaptureReleased ==
  [][(capture /\ (onCanvasPointerUp(Pt(0, 0)) \/ onCanvasPointerCancel))
       => ~capture']_vars

\* a pan that moved the view has ended and the capture is released
C18_Witness ==
  /\ ~capture
  /\ ~panning
  /\ scale = RInt(1)
  /\ offset.x # RInt(0)

\* a step in which the oldest request is answered
Answered ==
  /\ pending # <<>>
  /\ \/ pending' = Tail(pending)
     \/ Len(pending') = Len(pending) /\ pending' # pending

\* C17 as claimed (SpecStore): when a request is answered after a pointer
\* event committed a stroke while it was awaited, the scene and the undo
\* stack are as they were before the answer.
C17_NoRace ==
  [][(Answered /\ nRaced > 0) => (items' = items /\ undoStack' = undoStack)]_vars

\* C19 as claimed (SpecStore): the load of a note whose stored scene is
\* unparseable text, or JSON that is no list of items, ends with an empty
\* scene.
C19_MalformedLoadsEmpty ==
  [][(LoadCompletes /\ db[pending[1].noteId] # NULL
      /\ Val(db[pending[1].noteId]).strokes.json
           \in {"garbage", "object", "numbers"})
       => items' = <<>>]_vars

\* C20 as claimed (SpecStore): when a save returns a noteId, a load of that
\* noteId yields the items, the trimmed title and the folderId saved.
C20_SaveLoadRoundTrip ==
  [][(pending # <<>> /\ pending[1].op = "saveNote" /\ pending' # pending
      /\ ~NoteServiceSave(db, pending[1]).threw)
       => LET id == NoteServiceSave(db, pending[1]).noteId
              note == NoteServiceGet(db', id)
          IN  /\ note # NULL
              /\ Val(note).strokes = [type |-> "array", elems |-> pending[1].strokes]
              /\ Val(note).title = Trim(pending[1].title)
              /\ Val(note).folderId = pending[1].folderId]_vars

\* C21 (SpecEdit): a step that makes an undoable edit (a stroke commit, a
\* text-box creation, an erase that removes an item, delete-selected) leaves
\* the redo stack empty, so that redo changes nothing right after it.
C21_EditClearsRedo ==
  [][nStrokes' # nStrokes
       => /\ redoStack' = <<>>
          /\ redo([items |-> items', undoStack |-> undoStack',
                   redoStack |-> redoStack', selectedIdx |-> selectedIdx'])
               = [items |-> items', undoStack |-> undoStack',
                  redoStack |-> redoStack', selectedIdx |-> selectedIdx']]_vars

\* an edit was made, undone, and another edit made: one snapshot is on the
\* undo stack, so no redo took place, and the redo stack the undo had
\* filled is empty
C21_Witness ==
  /\ nStrokes = 2
  /\ nUndos = 1
  /\ Len(undoStack) = 1
  /\ redoStack = <<>>

\* C22 as claimed (SpecView): a pointer-up or a pointer-cancel that arrives
\* while a pan is active ends the pan and leaves the scene as it was.
C22_PanEnds ==
  [][(panning /\ (onCanvasPointerUp(Pt(0, 0)) \/ onCanvasPointerCancel))
       => (~panning' /\ items' = items)]_vars

\* C23 as claimed (Spec): with the select tool and a marquee being dragged,
\* a pointer-up or a pointer-cancel sets the selection from the marquee
\* rectangle and leaves no rectangle and no anchor.
C23_MarqueeFinalized ==
  [][(tool = "select" /\ ~panning /\ selectionDragging /\ selectionRect # NULL
      /\ (PointerUp \/ PointerCancel))
       => /\ selectedIdx' = marqueeSelection(items, Val(selectionRect))
          /\ selectionRect' = NULL
          /\ selectionStart' = NULL]_vars

\* a pointer-move to c with the select tool and the primary button held,
\* c no more than 4 units from the marquee anchor
SmallMove(c) ==
  /\ tool = "select"
  /\ ~panning
  /\ pointerDown
  /\ selectionStart # NULL
  /\ LET p == worldPoint(c)
         s == Val(selectionStart)
         dx == RSub(p.x, RInt(s.x))
         dy == RSub(p.y, RInt(s.y))
     IN  RLe(RAdd(RMul(dx, dx), RMul(dy, dy)), RInt(dragThreshold * dragThreshold))
  /\ onCanvasPointerMove(c)

\* C24 as claimed (SpecGeom): a pointer-move that stays within 4 units of
\* the anchor shows no marquee rectangle and leaves the selection as it was.
C24_SmallMoveFrame ==
  [][\A c \in GeomPts :
       SmallMove(c) => (selectionRect' = NULL /\ selectedIdx' = selectedIdx)]_vars

\* c is more than 4 screen units from the screen position of the anchor
ScreenFar(c) ==
  LET s == Val(selectionStart)
      ax == RAdd(RMul(RInt(s.x), scale), offset.x)
      ay == RAdd(RMul(RInt(s.y), scale), offset.y)
      dx == RSub(RInt(c.x), ax)
      dy == RSub(RInt(c.y), ay)
  IN  ~RLe(RAdd(RMul(dx, dx), RMul(dy, dy)), RInt(dragThreshold * dragThreshold))

\* C25 as claimed (SpecMarquee): at every scale, a pointer-move of a press
\* with the select tool starts the marquee exactly when the cursor is more
\* than 4 screen units from the screen position of the anchor.
C25_ScreenThreshold ==
  [][\A c \in MarqueePts :
       (/\ tool = "select"
        /\ ~panning
        /\ pointerDown
        /\ selectionStart # NULL
        /\ ~selectionDragging
        /\ Integral(c)
        /\ onCanvasPointerMove(c))
       => (selectionDragging' <=> ScreenFar(c))]_vars

\* C26 (SpecEdit): while the tool is not select, nothing is selected and
\* there is no marquee rectangle and no marquee anchor.
C26_SelectOnly ==
  tool # "select"
    => (selectedIdx = <<>> /\ selectionRect = NULL /\ selectionStart = NULL)

\* another tool is active after a marquee was dragged with the select tool
C26_Witness == tool # "select" /\ selectionDragging

\* the 1-based indices of the items of its an erase at (x, y) is to keep:
\* text boxes not containing the point, strokes with no segment within 8
Survivors(its, x, y) == {i \in 1..Len(its) : NothingNear(<<its[i]>>, x, y)}

\* the k-th smallest element of K
Nth(K, k) == CHOOSE i \in K : Cardinality({j \in K : j < i}) = k - 1

\* C27 (SpecGeom): an erase removes every text box containing the point and
\* every stroke with a segment within 8 of it, keeps the other items in
\* their order, and when it removed an item pushes one snapshot, the scene
\* before the erase (otherwise none).
C27_EraseAll ==
  [][\A c \in GeomPts :
       (tool = "erase" /\ onCanvasPointerDown(0, c))
         => LET K == Survivors(items, toCanvasPoint(c).x, toCanvasPoint(c).y)
            IN  /\ Len(items') = Cardinality(K)
                /\ \A k \in 1..Len(items') : items'[k] = items[Nth(K, k)]
                /\ IF Cardinality(K) < Len(items)
                     THEN undoStack' = Append(undoStack, items)
                     ELSE undoStack' = undoStack]_vars

\* one erase removed two items at once: the only snapshot holds both
C27_Witness ==
  /\ tool = "erase"
  /\ items = <<>>
  /\ Len(undoStack) = 1
  /\ Len(undoStack[1]) = 2

\* C28 (SpecEdit): a primary pointer-down with the text tool, no box being
\* edited, pushes the prior scene onto the undo stack, appends an empty
\* 240x80 text box at the pointer's world position as the last item, and
\* sets the editing index to that item's index.
C28_TextCreate ==
  [][\A c \in ClientPts :
       (tool = "text" /\ Integral(c) /\ onCanvasPointerDown(0, c))
         => /\ items' = Append(items, [kind |-> "text",
                                        x |-> worldPoint(c).x.num,
                                        y |-> worldPoint(c).y.num,
                                        w |-> 240, h |-> 80, text |-> ""])
            /\ undoStack' = Append(undoStack, items)
            /\ editingTextIdx' = Some(Len(items))]_vars

\* a text box was just created on a scene that held items: it is the last
\* item, it is being edited, and the scene before it is on the undo stack
C28_Witness ==
  /\ tool = "text"
  /\ Len(items) >= 2
  /\ Last(items).kind = "text"
  /\ Last(items).text = ""
  /\ editingTextIdx = Some(Len(items) - 1)
  /\ undoStack # <<>>
  /\ Last(undoStack) = Front(items)

\* C29 (SpecEdit): a text change in edit mode replaces the text of the box
\* at the editing index and nothing else: the other items, their number and
\* order, and both stacks stay as they were.
C29_TextChangeFrame ==
  [][\A txt \in TextInputs :
       TextChange(txt)
         => LET k == Val(editingTextIdx) + 1
            IN  /\ Len(items') = Len(items)
                /\ \A i \in 1..Len(items) : i # k => items'[i] = items[i]
                /\ items'[k] = [kind |-> "text", x |-> items[k].x, y |-> items[k].y,
                                 w |-> items[k].w, h |-> items[k].h, text |-> txt]
                /\ undoStack' = undoStack
                /\ redoStack' = redoStack]_vars

\* text was typed into a box created on a scene that held items: the undo
\* stack still ends with the scene before the box
C29_Witness ==
  /\ editingTextIdx = Some(Len(items) - 1)
  /\ Len(items) >= 2
  /\ Last(items).kind = "text"
  /\ Last(items).text = "ab"
  /\ Len(undoStack) = 1
  /\ Last(undoStack) = Front(items)

C31_DeleteSelected ==
  [][(selectedIdx # <<>> /\ editingTextIdx = NULL /\ DeleteSelected)
       => LET K == {i \in 1..Len(items) : ~InSeq(selectedIdx, i - 1)}
          IN  /\ Len(items') = Cardinality(K)
              /\ \A k \in 1..Len(items') : items'[k] = items[Nth(K, k)]
              /\ undoStack' = Append(undoStack, items)
              /\ selectedIdx' = <<>>]_vars

\* with the select tool, one Delete removed the two items of the scene
C31_Witness ==
  /\ tool = "select"
  /\ items = <<>>
  /\ selectedIdx = <<>>
  /\ Len(undoStack) = 1
  /\ Len(undoStack[1]) = 2

\* C36 as claimed (SpecGeom): the pointer-up that ends a marquee drag
\* leaves the selection shown at the last pointer-move, the one of the
\* rectangle from the anchor to the last position.
C36_FinalIsLive ==
  [][(tool = "select" /\ ~panning /\ pointerDown /\ selectionDragging
      /\ selectionRect # NULL /\ GeomUp)
       => selectedIdx' = selectedIdx]_vars

\* C37 as claimed (SpecGeom): an erase at the position of a point of a
\* stroke removes that stroke, also when the stroke has a single point.
C37_EraseAtPoint ==
  [][\A c \in GeomPts :
       (tool = "erase" /\ onCanvasPointerDown(0, c))
         => \A i \in 1..Len(items) :
              (items[i].kind = "stroke" /\ InSeq(items[i].points, toCanvasPoint(c)))
                => ~InSeq(items', items[i])]_vars

\* the stroke in progress is gone or replaced, not extended by a point
StrokeEnds ==
  /\ drawing # NULL
  /\ \/ drawing' = NULL
     \/ /\ drawing' # drawing
        /\ Val(drawing') # [Val(drawing) EXCEPT
                              !.points = Append(@, Last(Val(drawing').points))]

\* C33 (Spec): a step that clears or replaces the stroke in progress
\* appends it to the scene, with its points in the order captured.
C33_StrokeNeverDropped ==
  [][StrokeEnds
       => /\ Len(items') = Len(items) + 1
          /\ Front(items') = items
          /\ Last(items') = [kind |-> "stroke", color |-> Val(drawing).color,
                              width |-> Val(drawing).width,
                              points |-> Val(drawing).points]]_vars

\* a stroke of two points is committed and another one is in progress
C33_Witness ==
  /\ drawing # NULL
  /\ pointerDown
  /\ items # <<>>
  /\ Last(items).kind = "stroke"
  /\ Last(items).points = <<Pt(0, 0), Pt(20, 0)>>
  /\ undoStack # <<>>
  /\ Last(undoStack) = Front(items)

\* C34 (SpecHist): the undo stack and the redo stack together hold at most
\* 10 snapshots, so a redo never makes the undo stack longer than 10.
C34_HistoryTotalBounded ==
  /\ Len(undoStack) + Len(redoStack) <= HISTORY_LIMIT
  /\ Len(undoStack) <= HISTORY_LIMIT

\* after the undo stack had been full and entries evicted, some edits are
\* undone: the two stacks hold 10 snapshots between them
C34_Witness ==
  /\ Len(items) + Len(redoStack) > HISTORY_LIMIT
  /\ redoStack # <<>>
  /\ undoStack # <<>>
  /\ Len(undoStack) + Len(redoStack) = HISTORY_LIMIT

\* C35 as claimed (Spec): an editing index that is set names a text box of
\* the scene.
C35_EditingIndexValid ==
  editingTextIdx # NULL
    => /\ Val(editingTextIdx) + 1 \in 1..Len(items)
       /\ items[Val(editingTextIdx) + 1].kind = "text"

\* C38 as claimed (SpecStore): the answer to a load request for a note that
\* is no longer the open one leaves the scene, the title and the folder
\* shown as they are, those of the note requested last.
C38_LatestNoteShown ==
  [][(LoadCompletes /\ Some(pending[1].noteId) # noteId)
       => UNCHANGED <<items, title, folderId>>]_vars

\* C32: when save is invoked while a stroke is in progress, whatever the
\* tool, the item list it sends to be persisted is the scene with that
\* stroke committed.
C32_SaveFinalizes ==
  [][(drawing # NULL /\ SaveSave)
       => pending'[Len(pending')].strokes =
            Append(items, [kind |-> "stroke", color |-> Val(drawing).color,
                           width |-> Val(drawing).width,
                           points |-> Val(drawing).points])]_vars

\* C39: a successful save with no stroke in progress, and the steps it
\* triggers (its answer, and the load that the answer starts), leave the
\* scene, the undo stack and the redo stack unchanged.
C39_SaveKeepsHistory ==
  [][((SaveSave /\ drawing = NULL) \/ SaveSaveDone \/ SaveLoadDone)
       => UNCHANGED <<items, undoStack, redoStack>>]_vars

\* C40: when a save of the open note is answered, every tag assigned to
\* the note before is still assigned to it.
C40_SaveKeepsTags ==
  [][(SaveSaveDone /\ pending[1].noteId # NULL
        /\ db[Val(pending[1].noteId)] # NULL)
       => Val(db[Val(pending[1].noteId)]).tags
            \subseteq Val(db'[Val(pending[1].noteId)]).tags]_vars

====
